---------------------------- MODULE Spec2Model ----------------------------
(***************************************************************************)
(* Job orchestration of the contract analyzer.                             *)
(*                                                                         *)
(*   - WorkflowService (backend/app/services/workflow_service.py): the job *)
(*     registry `active_tasks`, start_analysis, the background coroutine   *)
(*     _execute_analysis, cancel_task and the queries.                     *)
(*   - the task machinery of backend/app/api/v1/contracts.py: the module   *)
(*     level dict `active_tasks` (here api_active_tasks), the coroutine    *)
(*     execute_analysis_with_timeout and the sweeper cleanup_old_tasks.    *)
(*                                                                         *)
(*   - AIModelManager (backend/app/core/ai_manager.py): the registry of    *)
(*     model backends, the usage statistics, the fallback router           *)
(*     analyze_with_fallback, select_best_model, create_ab_test and        *)
(*     analyze_with_ab_test; OpenAIModel.calculate_confidence.             *)
(*                                                                         *)
(* Scheduling is asyncio's: one coroutine runs at a time and is suspended  *)
(* only at an await, so every action below is the code between two awaits. *)
(* Time is the value of datetime.utcnow(), in whole seconds.               *)
(***************************************************************************)
EXTENDS Integers, Sequences, FiniteSets, TLC

VARIABLES
    now,              \* datetime.utcnow(), seconds
    active_tasks,     \* WorkflowService.active_tasks : task_id -> AnalysisTask
    executor,         \* position of each _execute_analysis coroutine
    api_active_tasks, \* contracts.active_tasks : task_id -> api_models.AnalysisTask
    api_executor,     \* position of each execute_analysis_with_timeout coroutine
    last_call,        \* the call completed by the latest step, with its return value
    cancel_true,      \* task_id -> number of cancel_task calls that returned True
    model_names,      \* keys of AIModelManager.models, in insertion order
    models,           \* AIModelManager.models : name -> adapter
    model_configs,    \* AIModelManager.model_configs : name -> ModelConfig
    usage_stats,      \* AIModelManager.usage_stats : name -> counters
    ab_test_groups,   \* AIModelManager.ab_test_groups : test_name -> experiment
    calls,            \* the frames of the calls suspended at model.analyze()
    invocations,      \* name -> what the adapter's analyze() has done since add_model
    last_ai_call      \* the call that ended in the latest step, with its outcome

job_vars == <<now, active_tasks, executor, api_active_tasks, api_executor,
              last_call, cancel_true>>
ai_vars == <<model_names, models, model_configs, usage_stats, ab_test_groups,
             calls, invocations, last_ai_call>>
vars == <<job_vars, ai_vars>>

---------------------------------------------------------------------------
(* Bounds of the model *)

MaxTasks == 2
MaxWindows == 2
MaxOffset == 2
\* Submissions in the specification of admission: one more than the
\* service's max_concurrent_tasks.
MaxSubmissions == 11

(* Program constants *)

TASK_CLEANUP_INTERVAL == 3600
max_concurrent_tasks == 10
AnalysisSeconds == 2

TaskIds == 1 .. MaxTasks
\* The ids start_analysis can hand out.
SubmittedIds == 1 .. MaxSubmissions

\* The instants the clock takes: the first seconds, and one second past each
\* multiple of the retention window.
Times == (0 .. MaxOffset) \cup { k * TASK_CLEANUP_INTERVAL + 1 : k \in 1 .. MaxWindows }

\* timeout_seconds as submitted: shorter than the analysis, and the default.
TimeoutValues == {1, 300}

\* Exceptions the awaited analysis call can raise: a type and str(e).
ExcKinds == {"Exception", "TimeoutError"}
ExcMessages == {"", "boom"}
Exceptions == [kind : ExcKinds, msg : ExcMessages]

\* Optional[...] : None, or a value.
None == <<>>
Some(x) == <<x>>

\* class TaskStatus
PENDING == "pending"
RUNNING == "running"
COMPLETED == "completed"
FAILED == "failed"
TIMEOUT == "timeout"
CANCELLED == "cancelled"

TaskStatus == {PENDING, RUNNING, COMPLETED, FAILED, TIMEOUT, CANCELLED}
TerminalStatuses == {COMPLETED, FAILED, TIMEOUT, CANCELLED}

\* The dict _execute_analysis attaches (the mock result).
MockResult == "mock_result"
\* Values workflow.execute returns to execute_analysis_with_timeout.
ApiResults == {"result_a", "result_b"}

NoCall == [op |-> "none"]

---------------------------------------------------------------------------
(* AnalysisTask of workflow_service.py.  contract_text, contract_filename, *)
(* progress_updates and start_time are stored and read by no operation     *)
(* other than get_task_status's report; they are left out of the record.   *)

\* Variant in which the task is constructed RUNNING.
NewTask_running(timeout_seconds) ==
    [ status          |-> RUNNING,
      end_time        |-> None,
      result          |-> None,
      error           |-> None,
      timeout_seconds |-> timeout_seconds ]

NewTask(timeout_seconds) ==
    [ status          |-> PENDING,
      end_time        |-> None,
      result          |-> None,
      error           |-> None,
      timeout_seconds |-> timeout_seconds ]

\* api_models.AnalysisTask.__init__ ; `future` is never assigned and stays None.
NewApiTask(timeout_seconds) ==
    [ status          |-> PENDING,
      result          |-> None,
      error           |-> None,
      start_time      |-> now,
      end_time        |-> None,
      timeout_seconds |-> timeout_seconds ]

\* uuid.uuid4(): an id no task has had.
UsedIds == DOMAIN executor \cup DOMAIN api_executor
FreshId == Cardinality(UsedIds) + 1

Extend(f, k, v) == [ x \in DOMAIN f \cup {k} |-> IF x = k THEN v ELSE f[x] ]
Restrict(f, S) == [ x \in S |-> f[x] ]
Range(f) == { f[x] : x \in DOMAIN f }

\* str(e) and the two f-strings of contracts.py
Str(e) == e.msg
FailedMessage(e) == "Analysis failed: " \o Str(e)
Digit(d) ==
    CASE d = 0 -> "0" [] d = 1 -> "1" [] d = 2 -> "2" [] d = 3 -> "3" [] d = 4 -> "4"
      [] d = 5 -> "5" [] d = 6 -> "6" [] d = 7 -> "7" [] d = 8 -> "8" [] d = 9 -> "9"
RECURSIVE IntText(_)
IntText(n) == IF n < 10 THEN Digit(n) ELSE IntText(n \div 10) \o Digit(n % 10)
TimedOutMessage(n) == "Analysis timed out after " \o IntText(n) \o " seconds"

---------------------------------------------------------------------------
(* AIModelManager of ai_manager.py: the data.                              *)
(* Numbers are exact: a confidence score is counted in tenths, a cost in   *)
(* millionths of a dollar, a processing time in seconds, and an average is *)
(* the fraction num/den in lowest terms.  The rounding of the program's    *)
(* binary floating point is not part of the model.                         *)

\* Bounds: the calls suspended at a time, and the analyze() calls begun.
MaxCalls == 2
MaxInvocations == 3

\* class ModelProvider
OPENAI == "openai"
ANTHROPIC == "anthropic"
LOCAL_MODEL == "local"
ModelProvider == {OPENAI, ANTHROPIC, LOCAL_MODEL}

\* class ModelType
CONTRACT_ANALYSIS == "contract_analysis"
RISK_ASSESSMENT == "risk_assessment"
REDLINE_GENERATION == "redline_generation"
EMAIL_DRAFTING == "email_drafting"
PRECEDENT_SEARCH == "precedent_search"
ModelType == {CONTRACT_ANALYSIS, RISK_ASSESSMENT, REDLINE_GENERATION,
              EMAIL_DRAFTING, PRECEDENT_SEARCH}

\* ModelConfig: the fields the manager reads.
ModelConfig(name, provider, model_type, cost_per_token, is_active, priority) ==
    [ name           |-> name,
      provider       |-> provider,
      model_type     |-> model_type,
      cost_per_token |-> cost_per_token,
      is_active      |-> is_active,
      priority       |-> priority ]

\* _initialize_default_models: the list default_models.
default_models ==
    << ModelConfig("gpt-4-analysis", OPENAI, CONTRACT_ANALYSIS, 30, TRUE, 1),
       ModelConfig("gpt-4-turbo-analysis", OPENAI, CONTRACT_ANALYSIS, 10, TRUE, 2),
       ModelConfig("gpt-3.5-analysis", OPENAI, CONTRACT_ANALYSIS, 2, TRUE, 3) >>

\* Configurations callers hand to add_model: a second registration of a
\* default name (with the priority and the cost of another backend), a new
\* backend with the priority and the cost of a default one, an inactive
\* backend under a default name, and a provider that is none of
\* ModelProvider.
AddedConfigs ==
    { ModelConfig("gpt-4-analysis", OPENAI, CONTRACT_ANALYSIS, 2, TRUE, 3),
      ModelConfig("claude-analysis", ANTHROPIC, CONTRACT_ANALYSIS, 2, TRUE, 3),
      ModelConfig("gpt-3.5-analysis", LOCAL_MODEL, CONTRACT_ANALYSIS, 0, FALSE, 3),
      ModelConfig("azure-analysis", "azure", CONTRACT_ANALYSIS, 1, TRUE, 1) }

ModelNames ==
    { default_models[i].name : i \in DOMAIN default_models }
        \cup { c.name : c \in AddedConfigs }

\* The categories asked for.
AskedTypes == {CONTRACT_ANALYSIS, RISK_ASSESSMENT}

Sum(seq) ==
    LET s[i \in 0 .. Len(seq)] == IF i = 0 THEN 0 ELSE s[i - 1] + seq[i]
    IN s[Len(seq)]
Abs(x) == IF x < 0 THEN -x ELSE x

\* Fractions.
RECURSIVE GCD(_, _)
GCD(a, b) == IF b = 0 THEN a ELSE GCD(b, a % b)
Frac(n, d) == [ num |-> n \div GCD(n, d), den |-> d \div GCD(n, d) ]
FracLess(x, y) == x.num * y.den < y.num * x.den
Zero == Frac(0, 1)

\* The dict add_model stores in usage_stats.
NewUsageStats ==
    [ total_requests          |-> 0,
      successful_requests     |-> 0,
      failed_requests         |-> 0,
      total_tokens            |-> 0,
      total_cost              |-> 0,
      average_confidence      |-> Zero,
      average_processing_time |-> Zero ]

\* What the analyze() calls of a backend have done since it was registered:
\* how many returned and raised, and the sums over the results returned.
NoInvocations ==
    [ returned |-> 0, raised |-> 0, tokens |-> 0, cost |-> 0,
      confidence |-> 0, processing_time |-> 0 ]

\* The adapter classes: OpenAIModel, AnthropicModel, LocalModel.
Adapter(config) == [ cls |-> config.provider, config |-> config ]

\* What the chat completion yields to OpenAIModel.analyze: the confidence
\* computed from the content, the elapsed seconds, usage.total_tokens.
Completions ==
    { [ confidence_score |-> 5, processing_time |-> 1, total_tokens |-> 100 ],
      [ confidence_score |-> 8, processing_time |-> 2, total_tokens |-> 150 ] }

\* AnalysisResult as the three analyze() methods build it.
AnalysisResult(adapter, completion) ==
    [ confidence_score |-> completion.confidence_score,
      model_used       |-> adapter.config.name,
      processing_time  |-> completion.processing_time,
      total_tokens     |-> completion.total_tokens,
      cost             |-> IF adapter.cls = OPENAI
                           THEN completion.total_tokens * adapter.config.cost_per_token
                           ELSE 0 ]

\* The results an adapter's analyze() can return.
ResultsOf(adapter) ==
    CASE adapter.cls = OPENAI ->
            { AnalysisResult(adapter, c) : c \in Completions }
      [] adapter.cls = ANTHROPIC ->
            { AnalysisResult(adapter, [ confidence_score |-> 8, processing_time |-> t,
                                        total_tokens |-> 150 ]) : t \in {1} }
      [] adapter.cls = LOCAL_MODEL ->
            { AnalysisResult(adapter, [ confidence_score |-> 7, processing_time |-> t,
                                        total_tokens |-> 150 ]) : t \in {1} }

\* The exceptions an adapter's analyze() can raise; `model` tells the
\* exception objects of different backends apart.
ErrorMessages == {"rate limit"}
ErrorsOf(adapter) ==
    IF adapter.cls = OPENAI
    THEN { [ kind |-> "Exception", msg |-> m, model |-> adapter.config.name ] :
             m \in ErrorMessages }
    ELSE {}

ValueError(msg) == [ kind |-> "ValueError", msg |-> msg, model |-> "" ]

NoAiCall == [ op |-> "none" ]

\* A slot of `calls` that holds no frame.
IdleCall ==
    [ op         |-> "",
      arg        |-> "",
      pc         |-> "idle",
      candidates |-> << >>,
      idx        |-> 0,
      adapter    |-> None,
      last_error |-> None,
      ret        |-> None,
      detached   |-> FALSE ]

---------------------------------------------------------------------------
Init ==
    /\ now = 0
    /\ active_tasks = << >>
    /\ executor = << >>
    /\ api_active_tasks = << >>
    /\ api_executor = << >>
    /\ last_call = NoCall
    /\ cancel_true = [ id \in TaskIds |-> 0 ]
    /\ model_names = [ i \in DOMAIN default_models |-> default_models[i].name ]
    /\ models = [ n \in { default_models[i].name : i \in DOMAIN default_models } |->
                    Adapter(CHOOSE c \in Range(default_models) : c.name = n) ]
    /\ model_configs = [ n \in DOMAIN models |-> models[n].config ]
    /\ usage_stats = [ n \in DOMAIN models |-> NewUsageStats ]
    /\ ab_test_groups = << >>
    /\ calls = [ c \in 1 .. MaxCalls |-> IdleCall ]
    /\ invocations = [ n \in DOMAIN models |-> NoInvocations ]
    /\ last_ai_call = NoAiCall

(* The clock advances to its next instant. *)
Tick ==
    /\ \E t \in Times : t > now /\ (\A u \in Times : u > now => t <= u) /\ now' = t
    /\ last_call' = NoCall
    /\ UNCHANGED ai_vars
    /\ UNCHANGED <<active_tasks, executor, api_active_tasks, api_executor, cancel_true>>

---------------------------------------------------------------------------
(* WorkflowService *)

\* A variant of start_analysis that admits a task only below
\* max_concurrent_tasks unfinished ones.
start_analysis_gated(timeout_seconds) ==
    /\ Cardinality({ id \in DOMAIN active_tasks :
                        active_tasks[id].status \in {PENDING, RUNNING} })
            < max_concurrent_tasks
    /\ FreshId \in SubmittedIds
    /\ active_tasks' = Extend(active_tasks, FreshId, NewTask(timeout_seconds))
    /\ executor' = Extend(executor, FreshId, [pc |-> "scheduled", wake_at |-> None])
    /\ last_call' = [op |-> "start_analysis", ret |-> FreshId]
    /\ UNCHANGED ai_vars
    /\ UNCHANGED <<now, api_active_tasks, api_executor, cancel_true>>

\* start_analysis: store a PENDING task and schedule its coroutine; it
\* returns without awaiting anything, and max_concurrent_tasks is not read.
start_analysis(timeout_seconds) ==
    /\ FreshId \in SubmittedIds
    /\ active_tasks' = Extend(active_tasks, FreshId, NewTask(timeout_seconds))
    /\ executor' = Extend(executor, FreshId, [pc |-> "scheduled", wake_at |-> None])
    /\ last_call' = [op |-> "start_analysis", ret |-> FreshId]
    /\ UNCHANGED ai_vars
    /\ UNCHANGED <<now, api_active_tasks, api_executor, cancel_true>>

\* _execute_analysis up to its await: status := RUNNING, whatever it was.
ExecStart(id) ==
    /\ id \in DOMAIN executor
    /\ executor[id].pc = "scheduled"
    /\ active_tasks' = [active_tasks EXCEPT ![id].status = RUNNING]
    /\ executor' = [executor EXCEPT ![id] = [pc |-> "sleeping", wake_at |-> Some(now + AnalysisSeconds)]]
    /\ last_call' = NoCall
    /\ UNCHANGED ai_vars
    /\ UNCHANGED <<now, api_active_tasks, api_executor, cancel_true>>

\* Faulty variant: the result is attached, but a status already CANCELLED is kept.
ExecComplete_keep_cancelled(id) ==
    /\ id \in DOMAIN executor
    /\ executor[id].pc = "sleeping"
    /\ now >= executor[id].wake_at[1]
    /\ active_tasks' = [active_tasks EXCEPT
            ![id].result = Some(MockResult),
            ![id].status = IF @ = CANCELLED THEN @ ELSE COMPLETED,
            ![id].end_time = IF active_tasks[id].status = CANCELLED THEN @ ELSE Some(now)]
    /\ executor' = [executor EXCEPT ![id] = [pc |-> "done", wake_at |-> None]]
    /\ last_call' = NoCall
    /\ UNCHANGED ai_vars
    /\ UNCHANGED <<now, api_active_tasks, api_executor, cancel_true>>

\* _execute_analysis after the await returned: result, COMPLETED, end_time.
ExecComplete(id) ==
    /\ id \in DOMAIN executor
    /\ executor[id].pc = "sleeping"
    /\ now >= executor[id].wake_at[1]
    /\ active_tasks' = [active_tasks EXCEPT ![id].result = Some(MockResult),
                                            ![id].status = COMPLETED,
                                            ![id].end_time = Some(now)]
    /\ executor' = [executor EXCEPT ![id] = [pc |-> "done", wake_at |-> None]]
    /\ last_call' = NoCall
    /\ UNCHANGED ai_vars
    /\ UNCHANGED <<now, api_active_tasks, api_executor, cancel_true>>

\* Faulty variant: the except branch without `task.error = str(e)`.
ExecFail_without_error(id, e) ==
    /\ id \in DOMAIN executor
    /\ executor[id].pc = "sleeping"
    /\ active_tasks' = [active_tasks EXCEPT ![id].status = FAILED,
                                            ![id].end_time = Some(now)]
    /\ executor' = [executor EXCEPT ![id] = [pc |-> "done", wake_at |-> None]]
    /\ last_call' = NoCall
    /\ UNCHANGED ai_vars
    /\ UNCHANGED <<now, api_active_tasks, api_executor, cancel_true>>

\* _execute_analysis when the awaited analysis raises e: the except branch.
\* (The await of line 83 stands in for the analysis call; the placeholder
\* sleep itself does not raise.)
ExecFail(id, e) ==
    /\ id \in DOMAIN executor
    /\ executor[id].pc = "sleeping"
    /\ active_tasks' = [active_tasks EXCEPT ![id].status = FAILED,
                                            ![id].error = Some(Str(e)),
                                            ![id].end_time = Some(now)]
    /\ executor' = [executor EXCEPT ![id] = [pc |-> "done", wake_at |-> None]]
    /\ last_call' = NoCall
    /\ UNCHANGED ai_vars
    /\ UNCHANGED <<now, api_active_tasks, api_executor, cancel_true>>

\* Variant of cancel_task that deletes the record it cancels.
cancel_task_removing(id) ==
    IF id \notin DOMAIN active_tasks \/ active_tasks[id].status \notin {PENDING, RUNNING}
    THEN /\ last_call' = [op |-> "cancel_task", ret |-> FALSE]
         /\ UNCHANGED ai_vars
         /\ UNCHANGED <<now, active_tasks, executor, api_active_tasks, api_executor,
                        cancel_true>>
    ELSE /\ active_tasks' = Restrict(active_tasks, DOMAIN active_tasks \ {id})
         /\ cancel_true' = [cancel_true EXCEPT ![id] = @ + 1]
         /\ last_call' = [op |-> "cancel_task", ret |-> TRUE]
         /\ UNCHANGED ai_vars
         /\ UNCHANGED <<now, executor, api_active_tasks, api_executor>>

\* Faulty variant: cancel_task without the check of the status.
cancel_task_any_status(id) ==
    IF id \notin DOMAIN active_tasks
    THEN /\ last_call' = [op |-> "cancel_task", ret |-> FALSE]
         /\ UNCHANGED ai_vars
         /\ UNCHANGED <<now, active_tasks, executor, api_active_tasks, api_executor,
                        cancel_true>>
    ELSE /\ active_tasks' = [active_tasks EXCEPT ![id].status = CANCELLED,
                                                 ![id].end_time = Some(now)]
         /\ cancel_true' = [cancel_true EXCEPT ![id] = @ + 1]
         /\ last_call' = [op |-> "cancel_task", ret |-> TRUE]
         /\ UNCHANGED ai_vars
         /\ UNCHANGED <<now, executor, api_active_tasks, api_executor>>

\* cancel_task
cancel_task(id) ==
    IF id \notin DOMAIN active_tasks \/ active_tasks[id].status \notin {PENDING, RUNNING}
    THEN /\ last_call' = [op |-> "cancel_task", ret |-> FALSE]
         /\ UNCHANGED ai_vars
         /\ UNCHANGED <<now, active_tasks, executor, api_active_tasks, api_executor,
                        cancel_true>>
    ELSE /\ active_tasks' = [active_tasks EXCEPT ![id].status = CANCELLED,
                                                 ![id].end_time = Some(now)]
         /\ cancel_true' = [cancel_true EXCEPT ![id] = @ + 1]
         /\ last_call' = [op |-> "cancel_task", ret |-> TRUE]
         /\ UNCHANGED ai_vars
         /\ UNCHANGED <<now, executor, api_active_tasks, api_executor>>

\* Faulty variant: get_task_result with the comparison of the status inverted.
get_task_result_inverted(id) ==
    IF id \notin DOMAIN active_tasks \/ active_tasks[id].status = COMPLETED
    THEN None
    ELSE active_tasks[id].result

\* get_task_result
get_task_result(id) ==
    IF id \notin DOMAIN active_tasks \/ active_tasks[id].status # COMPLETED
    THEN None
    ELSE active_tasks[id].result

\* get_service_metrics: the dict it returns.
get_service_metrics ==
    LET with(status) == { id \in DOMAIN active_tasks : active_tasks[id].status = status } IN
    [ total_tasks          |-> Cardinality(DOMAIN active_tasks),
      completed_tasks      |-> Cardinality(with(COMPLETED)),
      failed_tasks         |-> Cardinality(with(FAILED)),
      running_tasks        |-> Cardinality(with(RUNNING)),
      max_concurrent_tasks |-> max_concurrent_tasks ]

\* get_task_status: None, or the snapshot (the fields the claims read).
get_task_status(id) ==
    IF id \notin DOMAIN active_tasks
    THEN None
    ELSE Some([ status   |-> active_tasks[id].status,
                end_time |-> active_tasks[id].end_time,
                error    |-> active_tasks[id].error ])

---------------------------------------------------------------------------
(* The task machinery of contracts.py *)

\* A task enters contracts.active_tasks and its coroutine is scheduled.  No
\* route of contracts.py does this (the dict is created empty and only
\* cleanup_old_tasks touches it); the action stands for the caller that
\* execute_analysis_with_timeout and cleanup_old_tasks are written for.
ApiRegister(timeout_seconds) ==
    /\ FreshId \in TaskIds
    /\ api_active_tasks' = Extend(api_active_tasks, FreshId, NewApiTask(timeout_seconds))
    /\ api_executor' = Extend(api_executor, FreshId, [pc |-> "scheduled", deadline |-> None])
    /\ last_call' = NoCall
    /\ UNCHANGED ai_vars
    /\ UNCHANGED <<now, active_tasks, executor, cancel_true>>

\* execute_analysis_with_timeout up to its await: status := "running" and
\* asyncio.wait_for arms the timer.
ApiExecStart(id) ==
    /\ id \in DOMAIN api_executor
    /\ api_executor[id].pc = "scheduled"
    /\ api_active_tasks' = [api_active_tasks EXCEPT ![id].status = RUNNING]
    /\ api_executor' = [api_executor EXCEPT ![id] =
            [pc |-> "waiting", deadline |-> Some(now + api_active_tasks[id].timeout_seconds)]]
    /\ last_call' = NoCall
    /\ UNCHANGED ai_vars
    /\ UNCHANGED <<now, active_tasks, executor, cancel_true>>

\* the except asyncio.TimeoutError branch
ApiTimedOut(id) ==
    /\ api_active_tasks' = [api_active_tasks EXCEPT
            ![id].error = Some(TimedOutMessage(api_active_tasks[id].timeout_seconds)),
            ![id].status = TIMEOUT,
            ![id].end_time = Some(now)]
    /\ api_executor' = [api_executor EXCEPT ![id] = [pc |-> "done", deadline |-> None]]
    /\ last_call' = NoCall
    /\ UNCHANGED ai_vars
    /\ UNCHANGED <<now, active_tasks, executor, cancel_true>>

\* workflow.execute returned r before the timer fired.
ApiExecReturn(id, r) ==
    /\ id \in DOMAIN api_executor
    /\ api_executor[id].pc = "waiting"
    /\ api_active_tasks' = [api_active_tasks EXCEPT ![id].result = Some(r),
                                                    ![id].status = COMPLETED,
                                                    ![id].end_time = Some(now)]
    /\ api_executor' = [api_executor EXCEPT ![id] = [pc |-> "done", deadline |-> None]]
    /\ last_call' = NoCall
    /\ UNCHANGED ai_vars
    /\ UNCHANGED <<now, active_tasks, executor, cancel_true>>

\* Variant in which the coroutine ends at the deadline without recording it.
ApiExecTimeout_unrecorded(id) ==
    /\ id \in DOMAIN api_executor
    /\ api_executor[id].pc = "waiting"
    /\ now >= api_executor[id].deadline[1]
    /\ api_executor' = [api_executor EXCEPT ![id] = [pc |-> "done", deadline |-> None]]
    /\ last_call' = NoCall
    /\ UNCHANGED ai_vars
    /\ UNCHANGED <<now, active_tasks, executor, api_active_tasks, cancel_true>>

\* the timer of asyncio.wait_for fired: it raises asyncio.TimeoutError.
ApiExecTimeout(id) ==
    /\ id \in DOMAIN api_executor
    /\ api_executor[id].pc = "waiting"
    /\ now >= api_executor[id].deadline[1]
    /\ ApiTimedOut(id)

\* workflow.execute raised e: an asyncio.TimeoutError of its own is caught by
\* the first except clause, anything else by `except Exception`.
ApiExecFail(id, e) ==
    /\ id \in DOMAIN api_executor
    /\ api_executor[id].pc = "waiting"
    /\ IF e.kind = "TimeoutError"
       THEN ApiTimedOut(id)
       ELSE /\ api_active_tasks' = [api_active_tasks EXCEPT
                    ![id].error = Some(FailedMessage(e)),
                    ![id].status = FAILED,
                    ![id].end_time = Some(now)]
            /\ api_executor' = [api_executor EXCEPT ![id] = [pc |-> "done", deadline |-> None]]
            /\ last_call' = NoCall
            /\ UNCHANGED ai_vars
            /\ UNCHANGED <<now, active_tasks, executor, cancel_true>>

\* Faulty variant: tasks_to_remove with >= for > in both comparisons.
tasks_to_remove_inclusive ==
    { id \in DOMAIN api_active_tasks :
        LET task == api_active_tasks[id] IN
        IF task.end_time # None
        THEN now - task.end_time[1] >= TASK_CLEANUP_INTERVAL
        ELSE now - task.start_time >= TASK_CLEANUP_INTERVAL * 2 }

\* tasks_to_remove of cleanup_old_tasks
tasks_to_remove ==
    { id \in DOMAIN api_active_tasks :
        LET task == api_active_tasks[id] IN
        IF task.end_time # None
        THEN now - task.end_time[1] > TASK_CLEANUP_INTERVAL
        ELSE now - task.start_time > TASK_CLEANUP_INTERVAL * 2 }

\* cleanup_old_tasks.  task.future is None on every task, so nothing is
\* cancelled: the coroutine of a removed task runs on, on a task object the
\* dict no longer holds, and its later steps are not observable ("detached").
cleanup_old_tasks ==
    /\ api_active_tasks' = Restrict(api_active_tasks, DOMAIN api_active_tasks \ tasks_to_remove)
    /\ api_executor' = [ id \in DOMAIN api_executor |->
            IF id \in tasks_to_remove
            THEN [pc |-> "detached", deadline |-> None]
            ELSE api_executor[id] ]
    /\ last_call' = NoCall
    /\ UNCHANGED ai_vars
    /\ UNCHANGED <<now, active_tasks, executor, cancel_true>>

---------------------------------------------------------------------------
Next ==
    \/ Tick
    \/ \E t \in TimeoutValues : ApiRegister(t)
    \/ \E id \in TaskIds : ApiExecStart(id)
    \/ \E id \in TaskIds, r \in ApiResults : ApiExecReturn(id, r)
    \/ \E id \in TaskIds : ApiExecTimeout(id)
    \/ \E id \in TaskIds, e \in Exceptions : ApiExecFail(id, e)
    \/ cleanup_old_tasks
    \/ \E t \in TimeoutValues : FreshId \in TaskIds /\ start_analysis(t)
    \/ \E id \in TaskIds : ExecStart(id)
    \/ \E id \in TaskIds : ExecComplete(id)
    \/ \E id \in TaskIds, e \in Exceptions : ExecFail(id, e)
    \/ \E id \in TaskIds : cancel_task(id)

Spec == Init /\ [][Next]_vars

\* The event loop under a fair scheduler.  A coroutine that is ready runs,
\* and a timer that is due fires, before the loop waits for a later instant;
\* the placeholder analysis of _execute_analysis, a sleep, returns, while
\* workflow.execute may return, raise or do neither.  Nothing schedules
\* cleanup_old_tasks.  The model's clock ends at LastInstant: no task is
\* submitted at that instant.
LastInstant == CHOOSE t \in Times : \A u \in Times : u <= t

Quiescent ==
    /\ \A id \in DOMAIN executor :
          /\ executor[id].pc # "scheduled"
          /\ executor[id].pc = "sleeping" => now < executor[id].wake_at[1]
    /\ \A id \in DOMAIN api_executor :
          /\ api_executor[id].pc # "scheduled"
          /\ api_executor[id].pc = "waiting" => now < api_executor[id].deadline[1]

LoopWaits == Quiescent /\ Tick

LiveNext ==
    \/ LoopWaits
    \/ \E t \in TimeoutValues : now < LastInstant /\ FreshId \in TaskIds /\ start_analysis(t)
    \/ \E id \in TaskIds : ExecStart(id)
    \/ \E id \in TaskIds : ExecComplete(id)
    \/ \E id \in TaskIds, e \in Exceptions : ExecFail(id, e)
    \/ \E id \in TaskIds : cancel_task(id)
    \/ \E t \in TimeoutValues : now < LastInstant /\ ApiRegister(t)
    \/ \E id \in TaskIds : ApiExecStart(id)
    \/ \E id \in TaskIds, r \in ApiResults : ApiExecReturn(id, r)
    \/ \E id \in TaskIds : ApiExecTimeout(id)
    \/ \E id \in TaskIds, e \in Exceptions : ApiExecFail(id, e)

LiveSpec ==
    /\ Init
    /\ [][LiveNext]_vars
    /\ WF_vars(LoopWaits)
    /\ \A id \in TaskIds :
          /\ WF_vars(ExecStart(id))
          /\ WF_vars(ExecComplete(id))
          /\ WF_vars(ApiExecStart(id))
          /\ WF_vars(ApiExecTimeout(id))

AdmissionNext ==
    \/ \E t \in {300} : start_analysis(t)
    \/ \E id \in SubmittedIds : ExecStart(id)

\* Submissions and the start of their coroutines, none of them finishing.
AdmissionSpec == Init /\ [][AdmissionNext]_vars

---------------------------------------------------------------------------
(* AIModelManager of ai_manager.py: the operations.                        *)
(* The manager runs on the event loop: a call is suspended only while it   *)
(* awaits the adapter's analyze(), and the statistics are written by the   *)
(* code that follows that await, in one step.                              *)

\* add_model.  `constructed` is FALSE when the adapter's constructor raises
\* (the settings cannot be loaded); the except clause logs and returns.
add_model(config, constructed) ==
    /\ IF config.provider \in ModelProvider /\ constructed
       THEN /\ model_names' = IF config.name \in DOMAIN models
                              THEN model_names
                              ELSE Append(model_names, config.name)
            /\ models' = Extend(models, config.name, Adapter(config))
            /\ model_configs' = Extend(model_configs, config.name, config)
            /\ usage_stats' = Extend(usage_stats, config.name, NewUsageStats)
            /\ invocations' = Extend(invocations, config.name, NoInvocations)
       ELSE UNCHANGED <<model_names, models, model_configs, usage_stats, invocations>>
    /\ last_ai_call' = NoAiCall
    /\ UNCHANGED <<ab_test_groups, calls>>
    /\ UNCHANGED job_vars

\* Variant that lists the inactive backends too.
get_models_by_type_any(model_type) ==
    SelectSeq(model_names, LAMBDA n : model_configs[n].model_type = model_type)

\* get_models_by_type: the names of the adapters it lists, in dict order.
get_models_by_type(model_type) ==
    SelectSeq(model_names,
              LAMBDA n : model_configs[n].model_type = model_type
                         /\ model_configs[n].is_active)

\* Python's min(seq, key=...) and max(seq, key=...), `key` being the
\* function from the elements to their keys: the scan keeps the element it
\* holds unless the next one has a strictly smaller (larger) key.
PyMin(seq, key) ==
    LET best[i \in 1 .. Len(seq)] ==
            IF i = 1 THEN seq[1]
            ELSE IF FracLess(key[seq[i]], key[best[i - 1]]) THEN seq[i] ELSE best[i - 1]
    IN best[Len(seq)]

PyMax(seq, key) ==
    LET best[i \in 1 .. Len(seq)] ==
            IF i = 1 THEN seq[1]
            ELSE IF FracLess(key[best[i - 1]], key[seq[i]]) THEN seq[i] ELSE best[i - 1]
    IN best[Len(seq)]

\* min and max that keep the last of equal keys.
PyMinLast(seq, key) ==
    LET best[i \in 1 .. Len(seq)] ==
            IF i = 1 THEN seq[1]
            ELSE IF FracLess(key[best[i - 1]], key[seq[i]]) THEN best[i - 1] ELSE seq[i]
    IN best[Len(seq)]

PyMaxLast(seq, key) ==
    LET best[i \in 1 .. Len(seq)] ==
            IF i = 1 THEN seq[1]
            ELSE IF FracLess(key[seq[i]], key[best[i - 1]]) THEN best[i - 1] ELSE seq[i]
    IN best[Len(seq)]

\* Variant whose "cost" choice keeps the last of the cheapest.
select_best_model_last_min(model_type, criteria) ==
    LET available_models == get_models_by_type(model_type)
        names == Range(available_models)
        average_confidence == [ n \in names |-> usage_stats[n].average_confidence ]
        average_processing_time ==
            [ n \in names |-> usage_stats[n].average_processing_time ]
        cost_per_token == [ n \in names |-> Frac(models[n].config.cost_per_token, 1) ]
        priority == [ n \in names |-> Frac(models[n].config.priority, 1) ]
    IN
    IF available_models = << >> THEN None
    ELSE CASE criteria = "confidence" -> Some(PyMax(available_models, average_confidence))
           [] criteria = "speed" -> Some(PyMin(available_models, average_processing_time))
           [] criteria = "cost" -> Some(PyMinLast(available_models, cost_per_token))
           [] OTHER -> Some(PyMin(available_models, priority))

\* Variant whose "confidence" choice keeps the last of the most confident.
select_best_model_last_max(model_type, criteria) ==
    LET available_models == get_models_by_type(model_type)
        names == Range(available_models)
        average_confidence == [ n \in names |-> usage_stats[n].average_confidence ]
        average_processing_time ==
            [ n \in names |-> usage_stats[n].average_processing_time ]
        cost_per_token == [ n \in names |-> Frac(models[n].config.cost_per_token, 1) ]
        priority == [ n \in names |-> Frac(models[n].config.priority, 1) ]
    IN
    IF available_models = << >> THEN None
    ELSE CASE criteria = "confidence" -> Some(PyMaxLast(available_models, average_confidence))
           [] criteria = "speed" -> Some(PyMin(available_models, average_processing_time))
           [] criteria = "cost" -> Some(PyMin(available_models, cost_per_token))
           [] OTHER -> Some(PyMin(available_models, priority))

\* select_best_model: None, or the name of the adapter returned.
select_best_model(model_type, criteria) ==
    LET available_models == get_models_by_type(model_type)
        names == Range(available_models)
        average_confidence == [ n \in names |-> usage_stats[n].average_confidence ]
        average_processing_time ==
            [ n \in names |-> usage_stats[n].average_processing_time ]
        cost_per_token == [ n \in names |-> Frac(models[n].config.cost_per_token, 1) ]
        priority == [ n \in names |-> Frac(models[n].config.priority, 1) ]
    IN
    IF available_models = << >> THEN None
    ELSE CASE criteria = "confidence" -> Some(PyMax(available_models, average_confidence))
           [] criteria = "speed" -> Some(PyMin(available_models, average_processing_time))
           [] criteria = "cost" -> Some(PyMin(available_models, cost_per_token))
           [] OTHER -> Some(PyMin(available_models, priority))

\* list.sort(key=lambda m: m.config.priority): stable.
RECURSIVE SortByPriority(_)
SortByPriority(seq) ==
    IF seq = << >> THEN << >>
    ELSE LET front == SortByPriority(SubSeq(seq, 1, Len(seq) - 1))
             x == seq[Len(seq)]
             k == Cardinality({ i \in DOMAIN front :
                        models[front[i]].config.priority <= models[x].config.priority })
         IN SubSeq(front, 1, k) \o <<x>> \o SubSeq(front, k + 1, Len(front))

\* The frame of a call suspended at model.analyze(): the operation and its
\* argument, the adapters it is to try in order, the position `idx` of the
\* one tried now, that adapter, and last_error of the fallback loop.  `pc`
\* and `ret` tell how a call ended: last_ai_call holds the frame of the call
\* that ended in the latest step.  A frame of analyze_with_ab_test holds in
\* its local `test_config` a reference to the experiment's dict: `detached`
\* is TRUE once that dict is no longer the one stored under the name.
NewCall(op, arg, candidates) ==
    [ op         |-> op,
      arg        |-> arg,
      pc         |-> "awaiting",
      candidates |-> candidates,
      idx        |-> 1,
      adapter    |-> Some(models[candidates[1]]),
      last_error |-> None,
      ret        |-> None,
      detached   |-> FALSE ]

RaisedCall(op, arg, e) ==
    [ op         |-> op,
      arg        |-> arg,
      pc         |-> "raised",
      candidates |-> << >>,
      idx        |-> 0,
      adapter    |-> None,
      last_error |-> None,
      ret        |-> Some(e),
      detached   |-> FALSE ]

\* The number of analyze() calls begun since the backends were registered.
Invoked ==
    Sum([ i \in DOMAIN model_names |->
            invocations[model_names[i]].returned + invocations[model_names[i]].raised ])
        + Cardinality({ c \in DOMAIN calls : calls[c].pc = "awaiting" })

\* A slot is free for another call, and the model's bound is not reached.
FreeSlot == CHOOSE c \in DOMAIN calls : calls[c].pc = "idle"
CanBegin ==
    /\ \E c \in DOMAIN calls : calls[c].pc = "idle"
    /\ Invoked < MaxInvocations

\* analyze_with_model, up to the await of model.analyze().
analyze_with_model(model_name) ==
    /\ CanBegin
    /\ IF model_name \notin DOMAIN models
       THEN /\ last_ai_call' = RaisedCall("analyze_with_model", model_name,
                    ValueError("Model " \o model_name \o " not found"))
            /\ UNCHANGED calls
       ELSE /\ calls' = [calls EXCEPT ![FreeSlot] =
                            NewCall("analyze_with_model", model_name, <<model_name>>)]
            /\ last_ai_call' = NoAiCall
    /\ UNCHANGED <<model_names, models, model_configs, usage_stats, ab_test_groups,
                   invocations>>
    /\ UNCHANGED job_vars

\* Variant without `models.sort(key=lambda m: m.config.priority)`.
analyze_with_fallback_unsorted(model_type) ==
    LET sorted == get_models_by_type(model_type) IN
    /\ CanBegin
    /\ IF sorted = << >>
       THEN /\ last_ai_call' = RaisedCall("analyze_with_fallback", model_type,
                    ValueError("No models available for type: " \o model_type))
            /\ UNCHANGED calls
       ELSE /\ calls' = [calls EXCEPT ![FreeSlot] =
                            NewCall("analyze_with_fallback", model_type, sorted)]
            /\ last_ai_call' = NoAiCall
    /\ UNCHANGED <<model_names, models, model_configs, usage_stats, ab_test_groups,
                   invocations>>
    /\ UNCHANGED job_vars

\* analyze_with_fallback, up to the await in its first analyze_with_model.
analyze_with_fallback(model_type) ==
    LET sorted == SortByPriority(get_models_by_type(model_type)) IN
    /\ CanBegin
    /\ IF sorted = << >>
       THEN /\ last_ai_call' = RaisedCall("analyze_with_fallback", model_type,
                    ValueError("No models available for type: " \o model_type))
            /\ UNCHANGED calls
       ELSE /\ calls' = [calls EXCEPT ![FreeSlot] =
                            NewCall("analyze_with_fallback", model_type, sorted)]
            /\ last_ai_call' = NoAiCall
    /\ UNCHANGED <<model_names, models, model_configs, usage_stats, ab_test_groups,
                   invocations>>
    /\ UNCHANGED job_vars

\* The adapter name a suspended call is awaiting.
Awaited(c) == calls[c].candidates[calls[c].idx]

\* What the analyze() a suspended call awaits can return, and raise.
Results(c) == IF calls[c].pc = "awaiting" THEN ResultsOf(calls[c].adapter[1]) ELSE {}
Errors(c) == IF calls[c].pc = "awaiting" THEN ErrorsOf(calls[c].adapter[1]) ELSE {}

\* The experiments once the analyze_with_ab_test call of frame c has counted
\* its outcome in test_config["results"][model_name]; a frame of another
\* operation counts nothing, and a detached frame counts in a dict that is
\* stored no longer.
AbCounted_on_success(c, success) ==
    IF calls[c].op = "analyze_with_ab_test" /\ ~ calls[c].detached /\ success
    THEN [ ab_test_groups EXCEPT ![calls[c].arg].results[Awaited(c)] =
                [ requests  |-> @.requests + 1,
                  successes |-> @.successes + 1 ] ]
    ELSE ab_test_groups

AbCounted(c, success) ==
    IF calls[c].op = "analyze_with_ab_test" /\ ~ calls[c].detached
    THEN [ ab_test_groups EXCEPT ![calls[c].arg].results[Awaited(c)] =
                [ requests  |-> @.requests + 1,
                  successes |-> @.successes + (IF success THEN 1 ELSE 0) ] ]
    ELSE ab_test_groups

\* Variant that computes the new average from the count after the
\* increment, (avg * n + x) / n.
update_usage_stats_n(stats, result) ==
    LET n == stats.successful_requests + 1
        avg(a, x) == Frac(a.num * n + x * a.den, a.den * n)
    IN [ stats EXCEPT !.total_requests = @ + 1,
                      !.successful_requests = n,
                      !.total_tokens = @ + result.total_tokens,
                      !.total_cost = @ + result.cost,
                      !.average_confidence = avg(@, result.confidence_score),
                      !.average_processing_time = avg(@, result.processing_time) ]

\* _update_usage_stats
update_usage_stats(stats, result) ==
    LET n == stats.successful_requests + 1
        avg(a, x) == Frac(a.num * (n - 1) + x * a.den, a.den * n)
    IN [ stats EXCEPT !.total_requests = @ + 1,
                      !.successful_requests = n,
                      !.total_tokens = @ + result.total_tokens,
                      !.total_cost = @ + result.cost,
                      !.average_confidence = avg(@, result.confidence_score),
                      !.average_processing_time = avg(@, result.processing_time) ]

\* Variant of the step below that reads the statistics before the await
\* and writes them after it: the update of a call that ends while another
\* call on the same backend is suspended is overwritten by that other call.
AnalyzeReturn_stale(c, result) ==
    /\ c \in DOMAIN calls
    /\ calls[c].pc = "awaiting"
    /\ result \in Results(c)
    /\ usage_stats' =
            IF \E d \in DOMAIN calls \ {c} :
                    calls[d].pc = "awaiting" /\ Awaited(d) = Awaited(c)
            THEN usage_stats
            ELSE [usage_stats EXCEPT ![Awaited(c)] = update_usage_stats(@, result)]
    /\ invocations' = [invocations EXCEPT
            ![Awaited(c)] = [ @ EXCEPT !.returned = @ + 1,
                                       !.tokens = @ + result.total_tokens,
                                       !.cost = @ + result.cost,
                                       !.confidence = @ + result.confidence_score,
                                       !.processing_time = @ + result.processing_time ]]
    /\ calls' = [calls EXCEPT ![c] = IdleCall]
    /\ last_ai_call' = [ calls[c] EXCEPT !.pc = "returned", !.adapter = None,
                                         !.ret = Some(result) ]
    /\ ab_test_groups' = AbCounted(c, TRUE)
    /\ UNCHANGED <<model_names, models, model_configs>>
    /\ UNCHANGED job_vars

\* model.analyze() returns: analyze_with_model updates the statistics and
\* returns the result, and analyze_with_fallback returns it in turn.
AnalyzeReturn(c, result) ==
    /\ c \in DOMAIN calls
    /\ calls[c].pc = "awaiting"
    /\ result \in Results(c)
    /\ usage_stats' = [usage_stats EXCEPT ![Awaited(c)] = update_usage_stats(@, result)]
    /\ invocations' = [invocations EXCEPT
            ![Awaited(c)] = [ @ EXCEPT !.returned = @ + 1,
                                       !.tokens = @ + result.total_tokens,
                                       !.cost = @ + result.cost,
                                       !.confidence = @ + result.confidence_score,
                                       !.processing_time = @ + result.processing_time ]]
    /\ calls' = [calls EXCEPT ![c] = IdleCall]
    /\ last_ai_call' = [ calls[c] EXCEPT !.pc = "returned", !.adapter = None,
                                         !.ret = Some(result) ]
    /\ ab_test_groups' = AbCounted(c, TRUE)
    /\ UNCHANGED <<model_names, models, model_configs>>
    /\ UNCHANGED job_vars

\* Variant of the step below whose loop keeps the first error it saw.
AnalyzeRaise_first_error(c, e) ==
    LET kept == IF calls[c].last_error # None THEN calls[c].last_error ELSE Some(e) IN
    /\ c \in DOMAIN calls
    /\ calls[c].pc = "awaiting"
    /\ e \in Errors(c)
    /\ usage_stats' = [usage_stats EXCEPT ![Awaited(c)].failed_requests = @ + 1]
    /\ invocations' = [invocations EXCEPT ![Awaited(c)].raised = @ + 1]
    /\ IF calls[c].op = "analyze_with_fallback" /\ calls[c].idx < Len(calls[c].candidates)
       THEN /\ calls' = [calls EXCEPT ![c] =
                    [ @ EXCEPT !.idx = @ + 1,
                               !.adapter = Some(models[calls[c].candidates[calls[c].idx + 1]]),
                               !.last_error = kept ]]
            /\ last_ai_call' = NoAiCall
       ELSE /\ calls' = [calls EXCEPT ![c] = IdleCall]
            /\ last_ai_call' = [ calls[c] EXCEPT
                    !.pc = "raised", !.adapter = None,
                    !.last_error = IF calls[c].op = "analyze_with_fallback"
                                   THEN kept ELSE None,
                    !.ret = kept ]
    /\ ab_test_groups' = AbCounted(c, FALSE)
    /\ UNCHANGED <<model_names, models, model_configs>>
    /\ UNCHANGED job_vars

\* Variant of the step below without `failed_requests += 1`.
AnalyzeRaise_uncounted(c, e) ==
    /\ c \in DOMAIN calls
    /\ calls[c].pc = "awaiting"
    /\ e \in Errors(c)
    /\ invocations' = [invocations EXCEPT ![Awaited(c)].raised = @ + 1]
    /\ IF calls[c].op = "analyze_with_fallback" /\ calls[c].idx < Len(calls[c].candidates)
       THEN /\ calls' = [calls EXCEPT ![c] =
                    [ @ EXCEPT !.idx = @ + 1,
                               !.adapter = Some(models[calls[c].candidates[calls[c].idx + 1]]),
                               !.last_error = Some(e) ]]
            /\ last_ai_call' = NoAiCall
       ELSE /\ calls' = [calls EXCEPT ![c] = IdleCall]
            /\ last_ai_call' = [ calls[c] EXCEPT
                    !.pc = "raised", !.adapter = None,
                    !.last_error = IF calls[c].op = "analyze_with_fallback"
                                   THEN Some(e) ELSE None,
                    !.ret = Some(e) ]
    /\ ab_test_groups' = AbCounted(c, FALSE)
    /\ UNCHANGED <<model_names, models, model_configs, usage_stats>>
    /\ UNCHANGED job_vars

\* model.analyze() raises: analyze_with_model counts the failure and
\* re-raises; analyze_with_fallback keeps the error and goes on to the next
\* adapter of its list, or raises last_error after the last one.
AnalyzeRaise(c, e) ==
    /\ c \in DOMAIN calls
    /\ calls[c].pc = "awaiting"
    /\ e \in Errors(c)
    /\ usage_stats' = [usage_stats EXCEPT ![Awaited(c)].failed_requests = @ + 1]
    /\ invocations' = [invocations EXCEPT ![Awaited(c)].raised = @ + 1]
    /\ IF calls[c].op = "analyze_with_fallback" /\ calls[c].idx < Len(calls[c].candidates)
       THEN /\ calls' = [calls EXCEPT ![c] =
                    [ @ EXCEPT !.idx = @ + 1,
                               !.adapter = Some(models[calls[c].candidates[calls[c].idx + 1]]),
                               !.last_error = Some(e) ]]
            /\ last_ai_call' = NoAiCall
       ELSE /\ calls' = [calls EXCEPT ![c] = IdleCall]
            /\ last_ai_call' = [ calls[c] EXCEPT
                    !.pc = "raised", !.adapter = None,
                    !.last_error = IF calls[c].op = "analyze_with_fallback"
                                   THEN Some(e) ELSE None,
                    !.ret = Some(e) ]
    /\ ab_test_groups' = AbCounted(c, FALSE)
    /\ UNCHANGED <<model_names, models, model_configs>>
    /\ UNCHANGED job_vars

\* create_ab_test: abs(sum(traffic_split) - 1.0) > 0.01.  Weights are
\* counted in hundredths.  When the sum is off by exactly one hundredth, the
\* rounding of the floating-point sum decides the comparison (0.5 + 0.51 is
\* rejected, 0.01 + 0.05 + 0.93 is accepted): `rounds_up` is TRUE when the
\* difference comes out above 0.01.
SplitRejected(traffic_split, rounds_up) ==
    \/ Abs(Sum(traffic_split) - 100) > 1
    \/ Abs(Sum(traffic_split) - 100) = 1 /\ rounds_up

\* The frames once create_ab_test has stored a new dict under test_name: the
\* suspended analyze_with_ab_test calls of that name keep the dict they read.
Detached(test_name) ==
    [ c \in DOMAIN calls |->
        IF calls[c].op = "analyze_with_ab_test" /\ calls[c].arg = test_name
        THEN [ calls[c] EXCEPT !.detached = TRUE ]
        ELSE calls[c] ]

\* Variant without the comparison of the two lengths.
create_ab_test_any_length(test_name, names, traffic_split, rounds_up) ==
    /\ IF SplitRejected(traffic_split, rounds_up)
       THEN /\ last_ai_call' = [ op |-> "create_ab_test", test_name |-> test_name,
                                 raised |-> Some(ValueError("Traffic split must sum to 1.0")) ]
            /\ UNCHANGED <<ab_test_groups, calls>>
       ELSE /\ ab_test_groups' = Extend(ab_test_groups, test_name,
                    [ models        |-> names,
                      traffic_split |-> traffic_split,
                      results       |-> [ n \in Range(names) |->
                                            [ requests |-> 0, successes |-> 0 ] ] ])
            /\ last_ai_call' = [ op |-> "create_ab_test", test_name |-> test_name,
                                 raised |-> None ]
            /\ calls' = Detached(test_name)
    /\ UNCHANGED <<model_names, models, model_configs, usage_stats, invocations>>
    /\ UNCHANGED job_vars

\* create_ab_test
create_ab_test(test_name, names, traffic_split, rounds_up) ==
    /\ IF Len(names) # Len(traffic_split)
       THEN /\ last_ai_call' = [ op |-> "create_ab_test", test_name |-> test_name,
                                 raised |-> Some(ValueError(
                                    "Number of models must match traffic split")) ]
            /\ UNCHANGED <<ab_test_groups, calls>>
       ELSE IF SplitRejected(traffic_split, rounds_up)
       THEN /\ last_ai_call' = [ op |-> "create_ab_test", test_name |-> test_name,
                                 raised |-> Some(ValueError("Traffic split must sum to 1.0")) ]
            /\ UNCHANGED <<ab_test_groups, calls>>
       ELSE /\ ab_test_groups' = Extend(ab_test_groups, test_name,
                    [ models        |-> names,
                      traffic_split |-> traffic_split,
                      results       |-> [ n \in Range(names) |->
                                            [ requests |-> 0, successes |-> 0 ] ] ])
            /\ last_ai_call' = [ op |-> "create_ab_test", test_name |-> test_name,
                                 raised |-> None ]
            /\ calls' = Detached(test_name)
    /\ UNCHANGED <<model_names, models, model_configs, usage_stats, invocations>>
    /\ UNCHANGED job_vars

TestNames == {"pricing", "latency"}
\* The (model_names, traffic_split) pairs callers hand to create_ab_test.
AbTestInputs ==
    { << <<"gpt-4-analysis", "gpt-3.5-analysis">>, <<50, 50>> >>,
      << <<"gpt-4-analysis", "gpt-3.5-analysis">>, <<100>> >>,
      << <<"gpt-4-analysis", "gpt-3.5-analysis">>, <<50, 40>> >>,
      << <<"gpt-4-analysis", "gpt-3.5-analysis">>, <<50, 51>> >>,
      << <<"gpt-4-turbo-analysis">>, <<100>> >>,
      << <<"gpt-4-analysis", "claude-analysis">>, <<50, 50>> >> }

\* analyze_with_ab_test, up to the await in analyze_with_model.  `i` is the
\* position random.choices draws: one whose weight is positive.  The model
\* bounds the analyses of one experiment by MaxInvocations.
analyze_with_ab_test(test_name, i) ==
    /\ CanBegin
    /\ IF test_name \notin DOMAIN ab_test_groups
       THEN /\ i = 1
            /\ last_ai_call' = RaisedCall("analyze_with_ab_test", test_name,
                    ValueError("A/B test " \o test_name \o " not found"))
            /\ UNCHANGED <<calls, ab_test_groups>>
       ELSE LET test_config == ab_test_groups[test_name]
                model_name == test_config.models[i]
            IN
            /\ i \in DOMAIN test_config.models
            /\ test_config.traffic_split[i] > 0
            /\ Sum([ k \in DOMAIN test_config.models |->
                        test_config.results[test_config.models[k]].requests ])
                  < MaxInvocations
            /\ IF model_name \notin DOMAIN models
               THEN \* analyze_with_model raises before it awaits anything
                    /\ ab_test_groups' =
                            [ ab_test_groups EXCEPT
                                ![test_name].results[model_name].requests = @ + 1 ]
                    /\ last_ai_call' =
                            [ RaisedCall("analyze_with_ab_test", test_name,
                                  ValueError("Model " \o model_name \o " not found"))
                              EXCEPT !.candidates = <<model_name>>, !.idx = 1 ]
                    /\ UNCHANGED calls
               ELSE /\ calls' = [calls EXCEPT ![FreeSlot] =
                            NewCall("analyze_with_ab_test", test_name, <<model_name>>)]
                    /\ last_ai_call' = NoAiCall
                    /\ UNCHANGED ab_test_groups
    /\ UNCHANGED <<model_names, models, model_configs, usage_stats, invocations>>
    /\ UNCHANGED job_vars

AiNext ==
    \/ \E config \in AddedConfigs, constructed \in BOOLEAN : add_model(config, constructed)
    \/ \E n \in ModelNames : analyze_with_model(n)
    \/ \E t \in AskedTypes : analyze_with_fallback(t)
    \/ \E c \in DOMAIN calls : \E result \in Results(c) : AnalyzeReturn(c, result)
    \/ \E c \in DOMAIN calls : \E e \in Errors(c) : AnalyzeRaise(c, e)

\* The registry, the statistics and the router.
AiSpec == Init /\ [][AiNext]_vars

AbNext ==
    \/ \E config \in AddedConfigs, constructed \in BOOLEAN : add_model(config, constructed)
    \/ \E x \in AbTestInputs, test_name \in TestNames, rounds_up \in BOOLEAN :
            create_ab_test(test_name, x[1], x[2], rounds_up)

\* The registry and the experiments.
AbSpec == Init /\ [][AbNext]_vars

MaxArms == 2
\* The experiment the calls are routed through.
RoutedTests == {"pricing"}

ExperimentNext ==
    \/ \E x \in AbTestInputs, test_name \in RoutedTests, rounds_up \in BOOLEAN :
            create_ab_test(test_name, x[1], x[2], rounds_up)
    \/ \E test_name \in RoutedTests, i \in 1 .. MaxArms : analyze_with_ab_test(test_name, i)
    \/ \E c \in DOMAIN calls : \E result \in Results(c) : AnalyzeReturn(c, result)
    \/ \E c \in DOMAIN calls : \E e \in Errors(c) : AnalyzeRaise(c, e)

\* The experiments and the calls routed through them.
ExperimentSpec == Init /\ [][ExperimentNext]_vars

---------------------------------------------------------------------------
(* OpenAIModel.calculate_confidence.  A text is the sequence of its        *)
(* characters; the score is counted in tenths.                             *)

\* n times the character ch
Rep(ch, n) == [ i \in 1 .. n |-> ch ]

\* `sub in text`
Contains(text, sub) ==
    \E i \in 1 .. (Len(text) - Len(sub) + 1) : SubSeq(text, i, i + Len(sub) - 1) = sub

\* str.strip(): the text without its leading and trailing whitespace
Whitespace == {" ", "\t", "\n"}
strip(text) ==
    LET inked == { i \in DOMAIN text : text[i] \notin Whitespace } IN
    IF inked = {} THEN << >>
    ELSE SubSeq(text, CHOOSE i \in inked : \A j \in inked : i <= j,
                      CHOOSE i \in inked : \A j \in inked : j <= i)

\* str.lower()
UpperCase == <<"A", "B", "C", "D", "E", "F", "G", "H", "I", "J", "K", "L", "M",
               "N", "O", "P", "Q", "R", "S", "T", "U", "V", "W", "X", "Y", "Z">>
LowerCase == <<"a", "b", "c", "d", "e", "f", "g", "h", "i", "j", "k", "l", "m",
               "n", "o", "p", "q", "r", "s", "t", "u", "v", "w", "x", "y", "z">>
lower(text) ==
    [ i \in DOMAIN text |->
        IF \E k \in DOMAIN UpperCase : UpperCase[k] = text[i]
        THEN LowerCase[CHOOSE k \in DOMAIN UpperCase : UpperCase[k] = text[i]]
        ELSE text[i] ]

\* The list markers as the source file spells them: the third is the three
\* characters U+00E2 U+20AC U+00A2, a bullet decoded in the wrong charset.
list_markers ==
    { <<"1", ".">>, <<"2", ".">>, <<"U+00E2", "U+20AC", "U+00A2">>, <<"-">> }

legal_terms ==
    { <<"c", "o", "n", "t", "r", "a", "c", "t">>,
      <<"c", "l", "a", "u", "s", "e">>,
      <<"l", "i", "a", "b", "i", "l", "i", "t", "y">>,
      <<"i", "n", "d", "e", "m", "n", "i", "f", "i", "c", "a", "t", "i", "o", "n">>,
      <<"w", "a", "r", "r", "a", "n", "t", "y">>,
      <<"t", "e", "r", "m", "i", "n", "a", "t", "i", "o", "n">> }

\* Variant that returns the sum without `min(confidence, 1.0)`.
calculate_confidence_unclamped(response) ==
    IF response = << >> \/ Len(strip(response)) < 10
    THEN 0
    ELSE 5
         + (IF Len(response) > 100 THEN 2 ELSE 0)
         + (IF Len(response) > 500 THEN 1 ELSE 0)
         + (IF Contains(response, <<"{">>) /\ Contains(response, <<"}">>) THEN 1 ELSE 0)
         + (IF \E marker \in list_markers : Contains(response, marker) THEN 1 ELSE 0)
         + (IF \E term \in legal_terms : Contains(lower(response), term) THEN 1 ELSE 0)

\* calculate_confidence
calculate_confidence(response) ==
    IF response = << >> \/ Len(strip(response)) < 10
    THEN 0
    ELSE LET confidence ==
                5
                + (IF Len(response) > 100 THEN 2 ELSE 0)
                + (IF Len(response) > 500 THEN 1 ELSE 0)
                + (IF Contains(response, <<"{">>) /\ Contains(response, <<"}">>)
                   THEN 1 ELSE 0)
                + (IF \E marker \in list_markers : Contains(response, marker)
                   THEN 1 ELSE 0)
                + (IF \E term \in legal_terms : Contains(lower(response), term)
                   THEN 1 ELSE 0)
         IN IF confidence < 10 THEN confidence ELSE 10

\* The responses scored: blanks around it or none, a filler, and each of a
\* pair of braces, a list marker and a legal term, present or not.
Paddings == { 0, 6 }
FillerLengths == { 0, 4, 9, 10, 100, 500 }
Braces == { << >>, <<"{">>, <<"{", "}">>, <<"}", "{">> }
Markers == { << >>, <<"1", ".">>, <<"-">>, <<"U+2022">> }
Terms == { << >>, <<"c", "o", "n", "t", "r", "a", "c", "t">>,
           <<"C", "l", "a", "u", "s", "e">>, <<"c", "o", "n", "t", "a", "c", "t">> }
Responses ==
    { Rep(" ", pad) \o Rep("x", n) \o b \o m \o t \o Rep(" ", pad) :
        pad \in Paddings, n \in FillerLengths, b \in Braces, m \in Markers, t \in Terms }

\* OpenAIModel.analyze has received the completion's text.
Received(response) ==
    /\ last_ai_call = NoAiCall
    /\ last_ai_call' = [ op |-> "received", response |-> response ]
    /\ UNCHANGED <<model_names, models, model_configs, usage_stats, ab_test_groups,
                   calls, invocations>>
    /\ UNCHANGED job_vars

\* It scores the text: the call of calculate_confidence and what it returns.
CalculateConfidence ==
    /\ last_ai_call.op = "received"
    /\ last_ai_call' = [ op       |-> "calculate_confidence",
                         response |-> last_ai_call.response,
                         ret      |-> calculate_confidence(last_ai_call.response) ]
    /\ UNCHANGED <<model_names, models, model_configs, usage_stats, ab_test_groups,
                   calls, invocations>>
    /\ UNCHANGED job_vars

ConfidenceNext ==
    \/ \E response \in Responses : Received(response)
    \/ CalculateConfidence

\* The scoring of responses.
ConfidenceSpec == Init /\ [][ConfidenceNext]_vars

---------------------------------------------------------------------------
(* Claims about the job registry and the executors *)

\* The state graph of the job state machine.
ValidEdges ==
    { <<PENDING, RUNNING>>, <<PENDING, CANCELLED>>,
      <<RUNNING, COMPLETED>>, <<RUNNING, FAILED>>,
      <<RUNNING, TIMEOUT>>, <<RUNNING, CANCELLED>> }

\* C1: every change of a task's status follows an edge of the state graph
\* (PENDING->RUNNING, RUNNING->{COMPLETED, FAILED, TIMEOUT, CANCELLED},
\* PENDING->CANCELLED); in particular a terminal status never changes.
C1_StatusFollowsGraph ==
    [][ \A id \in DOMAIN active_tasks :
            (id \in DOMAIN active_tasks'
             /\ active_tasks'[id].status # active_tasks[id].status)
            => <<active_tasks[id].status, active_tasks'[id].status>> \in ValidEdges ]_vars

\* C2: once cancel_task has returned True for a task, get_task_status reports
\* CANCELLED and get_task_result returns nothing for it, at every later time.
C2_CancellationWins ==
    \A id \in TaskIds :
        cancel_true[id] > 0
        => /\ get_task_status(id) # None
           /\ get_task_status(id)[1].status = CANCELLED
           /\ get_task_result(id) = None

\* C3: for each task cancel_task returns True at most once (exactly once, on
\* the call that cancels it; False on every later call).
C3_CancelTrueOnce ==
    \A id \in TaskIds : cancel_true[id] <= 1

\* C4: a task submitted with a timeout shorter than the analysis duration is
\* never COMPLETED, and once its executor has finished without the analysis
\* raising or the task being cancelled, its status is TIMEOUT and its error
\* records the configured duration.
C4_DeadlineYieldsTimeout ==
    \A id \in DOMAIN active_tasks :
        LET task == active_tasks[id] IN
        task.timeout_seconds < AnalysisSeconds
        => /\ task.status # COMPLETED
           /\ (executor[id].pc = "done" /\ task.status \notin {FAILED, CANCELLED})
              => /\ task.status = TIMEOUT
                 /\ task.error = Some(TimedOutMessage(task.timeout_seconds))

\* C5: get_task_result(task_id) returns a value exactly when the task is in
\* the registry with status COMPLETED, and the value is the result the
\* executor attached; for an unknown id or any other status it returns None.
C5_ResultIffCompleted ==
    \A id \in TaskIds :
        /\ get_task_result(id) # None
           <=> (id \in DOMAIN active_tasks /\ active_tasks[id].status = COMPLETED)
        /\ get_task_result(id) # None => get_task_result(id) = Some(MockResult)

C5_Witness ==
    \E a, b \in DOMAIN active_tasks :
        /\ active_tasks[a].status = COMPLETED
        /\ get_task_result(a) = Some(MockResult)
        /\ active_tasks[b].status \in {FAILED, CANCELLED}
        /\ get_task_result(b) = None

\* C6: in every reachable state of every task (of either registry), error is
\* non-null iff status is FAILED or TIMEOUT, and result is non-null iff status
\* is COMPLETED, also when cancel_task interleaves with the executor.
FieldsMatchStatus(task) ==
    /\ task.error # None <=> task.status \in {FAILED, TIMEOUT}
    /\ task.result # None <=> task.status = COMPLETED

C6_ErrorAndResultMatchStatus ==
    /\ \A id \in DOMAIN active_tasks : FieldsMatchStatus(active_tasks[id])
    /\ \A id \in DOMAIN api_active_tasks : FieldsMatchStatus(api_active_tasks[id])

C6_Witness ==
    \E id \in DOMAIN active_tasks :
        /\ cancel_true[id] > 0
        /\ executor[id].pc = "done"
        /\ active_tasks[id].status = COMPLETED

\* C7: cancel_task on a task that is already COMPLETED, FAILED, TIMEOUT or
\* CANCELLED, or on an unknown id, returns False and leaves every task record
\* (status, end time, result, error) unchanged.
C7_CancelTerminalIsNoOp ==
    [][ \A id \in TaskIds :
            ( /\ cancel_task(id)
              /\ \/ id \notin DOMAIN active_tasks
                 \/ active_tasks[id].status \in TerminalStatuses )
            => /\ last_call'.ret = FALSE
               /\ active_tasks' = active_tasks
               /\ api_active_tasks' = api_active_tasks ]_vars

C7_Witness ==
    /\ last_call = [op |-> "cancel_task", ret |-> FALSE]
    /\ DOMAIN active_tasks = TaskIds
    /\ \A id \in TaskIds : active_tasks[id].status \in TerminalStatuses
    /\ \E id \in TaskIds : active_tasks[id].status = COMPLETED

\* A finished executor writes nothing more: the task keeps what it ended with.
EndsThere ==
    /\ \A id \in DOMAIN executor :
           executor[id].pc = "done" => active_tasks'[id] = active_tasks[id]
    /\ \A id \in DOMAIN api_executor :
           (api_executor[id].pc = "done" /\ id \in DOMAIN api_active_tasks')
           => api_active_tasks'[id] = api_active_tasks[id]

C9_SweeperEvictsFinishedTasks ==
    [][ cleanup_old_tasks
        => \A id \in DOMAIN active_tasks :
               ( /\ active_tasks[id].status \in TerminalStatuses
                 /\ active_tasks[id].end_time # None
                 /\ now - active_tasks[id].end_time[1] > TASK_CLEANUP_INTERVAL )
               => id \notin DOMAIN active_tasks' ]_vars

\* C10: one run of cleanup_old_tasks removes exactly the tasks whose
\* completion time is more than the retention window in the past, or whose
\* status is still PENDING/RUNNING and whose creation time is more than twice
\* the window in the past; every other task is still present, unchanged.
ShouldEvict(task) ==
    \/ /\ task.end_time # None
       /\ now - task.end_time[1] > 3600
    \/ /\ task.status \in {PENDING, RUNNING}
       /\ now - task.start_time > 2 * 3600

C10_SweepRemovesExactlyStale ==
    [][ cleanup_old_tasks
        => /\ DOMAIN api_active_tasks' =
                { id \in DOMAIN api_active_tasks : ~ShouldEvict(api_active_tasks[id]) }
           /\ \A id \in DOMAIN api_active_tasks' :
                api_active_tasks'[id] = api_active_tasks[id] ]_vars

C10_Witness ==
    \E a, b \in DOMAIN api_executor :
        /\ api_executor[a].pc = "detached"
        /\ b \in DOMAIN api_active_tasks
        /\ api_active_tasks[b].status = RUNNING
        /\ now - api_active_tasks[b].start_time > TASK_CLEANUP_INTERVAL

---------------------------------------------------------------------------
(* Claims about the model registry, the statistics and the router *)

\* The position of a registered name in registration order.
Pos(n) == CHOOSE i \in DOMAIN model_names : model_names[i] = n

\* A name list holds each active backend of the category once, in ascending
\* priority, equal priorities in registration order.
InFallbackOrder(seq, model_type) ==
    /\ Range(seq) = { n \in DOMAIN models :
                        model_configs[n].model_type = model_type
                        /\ model_configs[n].is_active }
    /\ \A i, j \in DOMAIN seq :
         i < j => \/ model_configs[seq[i]].priority < model_configs[seq[j]].priority
                  \/ /\ model_configs[seq[i]].priority = model_configs[seq[j]].priority
                     /\ Pos(seq[i]) < Pos(seq[j])

\* The step ends the fallback call of slot c.
FallbackEnds(c) ==
    /\ calls[c].op = "analyze_with_fallback"
    /\ calls[c].pc = "awaiting"
    /\ calls'[c].pc = "idle"

\* C11: analyze_with_fallback invokes the active backends of the category
\* one at a time in ascending priority, equal priorities in registration
\* order, returns the result of the first backend that succeeds and invokes
\* no backend after that success.  In every step: a call made while the
\* category has an active backend takes the backends active at that moment,
\* in that order, and awaits the first; a suspended call either moves to the
\* next of its list, and only after the one it awaited raised, or ends; a
\* call that returns hands back the result of the backend it awaited and
\* awaits nothing more.
C11_FallbackOrder ==
    [][ /\ \A t \in AskedTypes :
             analyze_with_fallback(t) /\ get_models_by_type(t) # << >> =>
               \E c \in DOMAIN calls :
                 /\ calls[c].pc = "idle"
                 /\ calls'[c].op = "analyze_with_fallback"
                 /\ calls'[c].pc = "awaiting"
                 /\ calls'[c].idx = 1
                 /\ InFallbackOrder(calls'[c].candidates, t)
        /\ \A c \in DOMAIN calls :
             ( /\ calls[c].op = "analyze_with_fallback"
               /\ calls[c].pc = "awaiting"
               /\ calls'[c] # calls[c] ) =>
                 \/ /\ calls'[c] = [ calls[c] EXCEPT
                            !.idx = @ + 1,
                            !.adapter = calls'[c].adapter,
                            !.last_error = calls'[c].last_error ]
                    /\ calls[c].idx < Len(calls[c].candidates)
                    /\ calls'[c].adapter = Some(models[calls[c].candidates[calls[c].idx + 1]])
                    /\ calls'[c].last_error # None
                    /\ calls'[c].last_error[1].model = Awaited(c)
                 \/ /\ FallbackEnds(c)
                    /\ last_ai_call'.op = "analyze_with_fallback"
                    /\ last_ai_call'.candidates = calls[c].candidates
                    /\ last_ai_call'.idx = calls[c].idx
                    /\ last_ai_call'.pc \in {"returned", "raised"}
                    /\ last_ai_call'.pc = "returned" =>
                         /\ last_ai_call'.ret # None
                         /\ last_ai_call'.ret[1] \in Results(c)
                         /\ last_ai_call'.ret[1].model_used = calls[c].adapter[1].config.name
      ]_vars

\* A fallback call over three candidates, the last two of equal priority,
\* returned the result of the second.
C11_Witness ==
    /\ last_ai_call.op = "analyze_with_fallback"
    /\ last_ai_call.pc = "returned"
    /\ Len(last_ai_call.candidates) = 3
    /\ last_ai_call.idx = 2
    /\ last_ai_call.candidates[2] = "gpt-4-analysis"
    /\ last_ai_call.candidates[3] = "gpt-3.5-analysis"
    /\ last_ai_call.ret[1].model_used = "gpt-4-analysis"

\* The registry still holds the three default backends as constructed.
DefaultsAsConstructed ==
    \A i \in DOMAIN default_models :
        models[default_models[i].name] = Adapter(default_models[i])

\* C12: during analyze_with_fallback the statistics of each attempted
\* backend are updated before the next candidate is invoked, and the
\* backends not tried are left alone: the step in which a fallback call
\* leaves a backend adds one failure (and no success) to that backend when
\* it raised and one success (and no failure) when it returned, and changes
\* no other backend's statistics.  When the first two of three candidates
\* raise and the third succeeds, with no other call made, the call returns
\* the third's result and the statistics show one failed call and no success
\* for each of the first two, one successful call and no failure for the
\* third.
C12_StatsPerAttempt ==
    [][ \A c \in DOMAIN calls :
          ( /\ calls[c].op = "analyze_with_fallback"
            /\ calls[c].pc = "awaiting"
            /\ calls'[c] # calls[c] ) =>
            LET a == Awaited(c)
                cand == calls[c].candidates
            IN
            /\ \A n \in DOMAIN usage_stats \ {a} : usage_stats'[n] = usage_stats[n]
            /\ IF FallbackEnds(c) /\ last_ai_call'.pc = "returned"
               THEN /\ usage_stats'[a].successful_requests =
                            usage_stats[a].successful_requests + 1
                    /\ usage_stats'[a].failed_requests = usage_stats[a].failed_requests
               ELSE /\ usage_stats'[a].failed_requests = usage_stats[a].failed_requests + 1
                    /\ usage_stats'[a].successful_requests =
                            usage_stats[a].successful_requests
            /\ ( /\ FallbackEnds(c)
                 /\ last_ai_call'.pc = "returned"
                 /\ Len(cand) = 3
                 /\ calls[c].idx = 3
                 /\ DefaultsAsConstructed
                 /\ Invoked = 3 ) =>
                   /\ last_ai_call'.ret[1].model_used = cand[3]
                   /\ \A i \in {1, 2} :
                        /\ usage_stats'[cand[i]].failed_requests = 1
                        /\ usage_stats'[cand[i]].successful_requests = 0
                   /\ usage_stats'[cand[3]].successful_requests = 1
                   /\ usage_stats'[cand[3]].failed_requests = 0
      ]_vars

\* A fallback over the three default backends, the only call made, returned
\* the result of the third after the first two raised.
C12_Witness ==
    /\ last_ai_call.op = "analyze_with_fallback"
    /\ last_ai_call.pc = "returned"
    /\ last_ai_call.idx = 3
    /\ last_ai_call.ret[1].model_used = "gpt-3.5-analysis"
    /\ DefaultsAsConstructed
    /\ Invoked = 3
    /\ usage_stats["gpt-4-analysis"].failed_requests = 1
    /\ usage_stats["gpt-4-turbo-analysis"].failed_requests = 1
    /\ usage_stats["gpt-3.5-analysis"].successful_requests = 1

\* C13: if every candidate fails, analyze_with_fallback raises the error of
\* the last candidate tried; if the category has no active backend it
\* invokes nothing and raises an error of its own, which no failing backend
\* raises.  In every step: a fallback call made while the category has no
\* active backend is over at once with the ValueError "No models
\* available", awaits nothing and touches no statistics; a fallback call
\* raises only when the last of its candidates has raised, and then exactly
\* that backend's exception, which is no ValueError.
C13_FallbackErrors ==
    [][ /\ \A t \in AskedTypes :
             analyze_with_fallback(t) /\ get_models_by_type(t) = << >> =>
               /\ last_ai_call' = RaisedCall("analyze_with_fallback", t,
                        ValueError("No models available for type: " \o t))
               /\ calls' = calls
               /\ usage_stats' = usage_stats
               /\ invocations' = invocations
        /\ \A c \in DOMAIN calls :
             ( /\ calls[c].op = "analyze_with_fallback"
               /\ calls[c].pc = "awaiting"
               /\ calls'[c] # calls[c] ) =>
                 /\ ( calls[c].idx = Len(calls[c].candidates)
                      /\ ~ (FallbackEnds(c) /\ last_ai_call'.pc = "returned") ) =>
                        /\ FallbackEnds(c)
                        /\ last_ai_call'.pc = "raised"
                        /\ last_ai_call'.ret # None
                        /\ last_ai_call'.ret[1] \in Errors(c)
                        /\ last_ai_call'.ret[1].model =
                                calls[c].candidates[Len(calls[c].candidates)]
                        /\ last_ai_call'.ret[1].kind # "ValueError"
                 /\ ( FallbackEnds(c) /\ last_ai_call'.pc = "raised" ) =>
                        calls[c].idx = Len(calls[c].candidates)
      ]_vars

\* A fallback call raised the error of the third of its three candidates.
C13_Witness ==
    /\ last_ai_call.op = "analyze_with_fallback"
    /\ last_ai_call.pc = "raised"
    /\ Len(last_ai_call.candidates) = 3
    /\ last_ai_call.idx = 3
    /\ last_ai_call.ret[1].model = last_ai_call.candidates[3]
    /\ \A n \in Range(last_ai_call.candidates) : invocations[n].raised >= 1

\* C14: the usage counters stay consistent: a successful call adds one to
\* total_requests and successful_requests and adds its tokens and cost to
\* the totals; a failed call adds one to total_requests and failed_requests
\* and changes nothing else; and total_requests = successful_requests +
\* failed_requests for every backend after every step.
C14_CountersConsistent ==
    [][ /\ \A c \in DOMAIN calls : \A result \in Results(c) :
             AnalyzeReturn(c, result) =>
               LET old == usage_stats[Awaited(c)]
                   new == usage_stats'[Awaited(c)]
               IN /\ new.total_requests = old.total_requests + 1
                  /\ new.successful_requests = old.successful_requests + 1
                  /\ new.failed_requests = old.failed_requests
                  /\ new.total_tokens = old.total_tokens + result.total_tokens
                  /\ new.total_cost = old.total_cost + result.cost
        /\ \A c \in DOMAIN calls : \A e \in Errors(c) :
             AnalyzeRaise(c, e) =>
               LET old == usage_stats[Awaited(c)]
                   new == usage_stats'[Awaited(c)]
               IN /\ new.total_requests = old.total_requests + 1
                  /\ new.failed_requests = old.failed_requests + 1
                  /\ new.successful_requests = old.successful_requests
                  /\ new.total_tokens = old.total_tokens
                  /\ new.total_cost = old.total_cost
                  /\ new.average_confidence = old.average_confidence
                  /\ new.average_processing_time = old.average_processing_time
        /\ \A n \in DOMAIN usage_stats' :
             usage_stats'[n].total_requests =
                usage_stats'[n].successful_requests + usage_stats'[n].failed_requests
      ]_vars

\* C15: after k >= 1 successful invocations of a backend, with any number
\* of failed ones in between, its average_confidence is the sum of their k
\* confidence scores divided by k, and its average_processing_time the sum
\* of their k processing times divided by k.
C15_RunningAverages ==
    \A n \in DOMAIN usage_stats :
        invocations[n].returned >= 1 =>
            /\ usage_stats[n].average_confidence =
                    Frac(invocations[n].confidence, invocations[n].returned)
            /\ usage_stats[n].average_processing_time =
                    Frac(invocations[n].processing_time, invocations[n].returned)

\* A backend has returned twice, with different scores and times, and
\* raised once.
C15_Witness ==
    \E n \in DOMAIN usage_stats :
        /\ invocations[n].returned = 2
        /\ invocations[n].raised = 1
        /\ invocations[n].confidence = 13
        /\ invocations[n].processing_time = 3
        /\ usage_stats[n].average_confidence = Frac(13, 2)
        /\ usage_stats[n].average_processing_time = Frac(3, 2)

\* C16: invocations of the same backend that are in flight at once and
\* complete in any order lose no statistics update: whichever calls are
\* still suspended, successful_requests and failed_requests of a backend are
\* the numbers of its invocations that returned and that raised,
\* total_tokens and total_cost are the sums over those that returned, and
\* the two running averages are the means over those that returned.
C16_NoLostUpdate ==
    \A n \in DOMAIN usage_stats :
        /\ usage_stats[n].successful_requests = invocations[n].returned
        /\ usage_stats[n].failed_requests = invocations[n].raised
        /\ usage_stats[n].total_tokens = invocations[n].tokens
        /\ usage_stats[n].total_cost = invocations[n].cost
        /\ invocations[n].returned >= 1 =>
             /\ usage_stats[n].average_confidence.num * invocations[n].returned
                    = invocations[n].confidence * usage_stats[n].average_confidence.den
             /\ usage_stats[n].average_processing_time.num * invocations[n].returned
                    = invocations[n].processing_time
                        * usage_stats[n].average_processing_time.den

\* Two invocations of a backend have returned, the second of them while a
\* third invocation of the same backend was suspended, and both are counted.
C16_Witness ==
    \E n \in DOMAIN usage_stats : \E d \in DOMAIN calls :
        /\ calls[d].pc = "awaiting"
        /\ Awaited(d) = n
        /\ last_ai_call.op = "analyze_with_model"
        /\ last_ai_call.pc = "returned"
        /\ last_ai_call.arg = n
        /\ invocations[n].returned = 2
        /\ usage_stats[n].successful_requests = 2
        /\ usage_stats[n].total_tokens = invocations[n].tokens

\* C17: add_model with a name that is already registered is rejected: the
\* config, the adapter and the usage statistics of the registered backend
\* are left as they are, so no call of add_model resets a backend's
\* counters and running averages.
C17_DuplicateNameRejected ==
    [][ \A config \in AddedConfigs : \A constructed \in BOOLEAN :
          ( add_model(config, constructed) /\ config.name \in DOMAIN models ) =>
            /\ model_configs'[config.name] = model_configs[config.name]
            /\ models'[config.name] = models[config.name]
            /\ usage_stats'[config.name] = usage_stats[config.name]
      ]_vars

\* The active backends of a category.
ActiveOfType(model_type) ==
    { n \in DOMAIN models :
        model_configs[n].model_type = model_type /\ model_configs[n].is_active }

\* C18: select_best_model(category, "cost") returns the active backend of
\* the category with the smallest cost_per_token, and of several that share
\* the smallest the one registered first.
C18_CheapestFirstRegistered ==
    \A t \in ModelType :
        ActiveOfType(t) # {} =>
            LET chosen == select_best_model(t, "cost") IN
            /\ chosen # None
            /\ chosen[1] \in ActiveOfType(t)
            /\ \A m \in ActiveOfType(t) :
                 \/ model_configs[chosen[1]].cost_per_token < model_configs[m].cost_per_token
                 \/ /\ model_configs[chosen[1]].cost_per_token
                            = model_configs[m].cost_per_token
                    /\ Pos(chosen[1]) <= Pos(m)

\* Two active backends share the smallest cost, and the choice is the one
\* registered first, which is not the first of the registry.
C18_Witness ==
    /\ {"gpt-3.5-analysis", "claude-analysis"} \subseteq ActiveOfType(CONTRACT_ANALYSIS)
    /\ model_configs["gpt-3.5-analysis"].cost_per_token
            = model_configs["claude-analysis"].cost_per_token
    /\ model_configs["gpt-4-analysis"].cost_per_token
            > model_configs["gpt-3.5-analysis"].cost_per_token
    /\ select_best_model(CONTRACT_ANALYSIS, "cost") = Some("gpt-3.5-analysis")

\* C19: select_best_model(category, "confidence") returns the active
\* backend of the category whose average_confidence in usage_stats is the
\* largest, and of several that share the largest (all at the initial 0.0,
\* for instance) the first in registration order.
C19_MostConfidentFirstRegistered ==
    \A t \in ModelType :
        ActiveOfType(t) # {} =>
            LET chosen == select_best_model(t, "confidence") IN
            /\ chosen # None
            /\ chosen[1] \in ActiveOfType(t)
            /\ \A m \in ActiveOfType(t) :
                 \/ FracLess(usage_stats[m].average_confidence,
                             usage_stats[chosen[1]].average_confidence)
                 \/ /\ usage_stats[m].average_confidence
                            = usage_stats[chosen[1]].average_confidence
                    /\ Pos(chosen[1]) <= Pos(m)

\* The second and the third backend share the largest average, above that
\* of the first, and the choice is the second.
C19_Witness ==
    /\ usage_stats["gpt-4-analysis"].average_confidence = Frac(5, 1)
    /\ usage_stats["gpt-4-turbo-analysis"].average_confidence = Frac(8, 1)
    /\ usage_stats["gpt-3.5-analysis"].average_confidence = Frac(8, 1)
    /\ {"gpt-4-analysis", "gpt-4-turbo-analysis", "gpt-3.5-analysis"}
            \subseteq ActiveOfType(CONTRACT_ANALYSIS)
    /\ select_best_model(CONTRACT_ANALYSIS, "confidence") = Some("gpt-4-turbo-analysis")

\* The two lists are as long as each other and the weights sum to 1.0
\* within 0.01.
ValidSplit(names, traffic_split) ==
    /\ Len(names) = Len(traffic_split)
    /\ Abs(Sum(traffic_split) - 100) <= 1

\* C20: create_ab_test stores an experiment only if the backend list and
\* the weight list have equal length and the weights sum to 1.0 within
\* 0.01; otherwise it raises and leaves the stored experiments, the one of
\* the same name and its counters included, as they are; so every stored
\* experiment has as many weights as backends.
C20_ExperimentsValid ==
    [][ /\ \A x \in AbTestInputs : \A test_name \in TestNames : \A rounds_up \in BOOLEAN :
             create_ab_test(test_name, x[1], x[2], rounds_up) =>
               /\ last_ai_call'.raised = None =>
                    /\ ValidSplit(x[1], x[2])
                    /\ ab_test_groups'[test_name].models = x[1]
                    /\ ab_test_groups'[test_name].traffic_split = x[2]
               /\ ~ ValidSplit(x[1], x[2]) => last_ai_call'.raised # None
               /\ last_ai_call'.raised # None => ab_test_groups' = ab_test_groups
        /\ \A t \in DOMAIN ab_test_groups' :
             Len(ab_test_groups'[t].models) = Len(ab_test_groups'[t].traffic_split)
      ]_vars

\* A call was rejected while an experiment of the same name is stored.
C20_Witness ==
    /\ last_ai_call.op = "create_ab_test"
    /\ last_ai_call.raised # None
    /\ last_ai_call.test_name \in DOMAIN ab_test_groups
    /\ Len(ab_test_groups[last_ai_call.test_name].models) = 2

---------------------------------------------------------------------------
(* Claims about the experiments *)

\* The experiment `test_name` after one call on arm n has been counted: the
\* arm's requests are one more, its successes one more exactly on success,
\* and the other arms, the lists and the other experiments are as before.
CountedOnce(test_name, n, success) ==
    /\ DOMAIN ab_test_groups' = DOMAIN ab_test_groups
    /\ \A t \in DOMAIN ab_test_groups \ {test_name} :
            ab_test_groups'[t] = ab_test_groups[t]
    /\ ab_test_groups'[test_name].models = ab_test_groups[test_name].models
    /\ ab_test_groups'[test_name].traffic_split = ab_test_groups[test_name].traffic_split
    /\ DOMAIN ab_test_groups'[test_name].results = DOMAIN ab_test_groups[test_name].results
    /\ \A m \in DOMAIN ab_test_groups[test_name].results :
            LET before == ab_test_groups[test_name].results[m]
                after == ab_test_groups'[test_name].results[m]
            IN IF m = n
               THEN /\ after.requests = before.requests + 1
                    /\ after.successes = before.successes + (IF success THEN 1 ELSE 0)
               ELSE after = before

\* The analyses the adapters have been asked for and have ended, per backend.
Ended(h) == h.returned + h.raised

\* C21: a call of analyze_with_ab_test draws one backend of the experiment's
\* list and asks that backend alone; when the call ends, the requests of
\* that arm are one more whether the analysis returned or raised, its
\* successes are one more only when it returned, the other arms are as
\* before, and an exception is handed to the caller with no other backend
\* tried (a call suspended while create_ab_test stored a new experiment of
\* the name counts in the experiment it read); so successes <= requests
\* for every arm of every stored experiment.
C21_ExperimentCounters ==
    [][ /\ \A test_name \in RoutedTests : \A i \in 1 .. MaxArms :
             analyze_with_ab_test(test_name, i) /\ test_name \in DOMAIN ab_test_groups =>
               LET n == ab_test_groups[test_name].models[i] IN
               IF n \in DOMAIN models
               THEN /\ ab_test_groups' = ab_test_groups
                    /\ \E c \in DOMAIN calls :
                         /\ calls[c].pc = "idle"
                         /\ calls'[c].pc = "awaiting"
                         /\ calls'[c].candidates = <<n>>
                         /\ \A d \in DOMAIN calls \ {c} : calls'[d] = calls[d]
               ELSE /\ CountedOnce(test_name, n, FALSE)
                    /\ calls' = calls
                    /\ last_ai_call'.pc = "raised"
        /\ \A c \in DOMAIN calls :
             (calls[c].op = "analyze_with_ab_test" /\ calls'[c] # calls[c]
                /\ calls'[c].op # "analyze_with_ab_test") =>
               LET n == calls[c].candidates[1] IN
               /\ Len(calls[c].candidates) = 1
               /\ calls'[c] = IdleCall
               /\ last_ai_call'.op = "analyze_with_ab_test"
               /\ last_ai_call'.pc \in {"returned", "raised"}
               /\ last_ai_call'.ret \in
                    { Some(r) : r \in IF last_ai_call'.pc = "returned"
                                      THEN ResultsOf(models[n]) ELSE ErrorsOf(models[n]) }
               /\ IF calls[c].detached
                  THEN ab_test_groups' = ab_test_groups
                  ELSE /\ n \in Range(ab_test_groups[calls[c].arg].models)
                       /\ CountedOnce(calls[c].arg, n, last_ai_call'.pc = "returned")
               /\ \A m \in DOMAIN invocations :
                    Ended(invocations'[m]) = Ended(invocations[m]) + (IF m = n THEN 1 ELSE 0)
        /\ \A t \in DOMAIN ab_test_groups' : \A m \in DOMAIN ab_test_groups'[t].results :
             ab_test_groups'[t].results[m].successes <= ab_test_groups'[t].results[m].requests
      ]_vars

\* A call routed through an experiment has just raised, on an arm that has
\* counted one success and this failure, the other arm having none.
C21_Witness ==
    /\ last_ai_call.op = "analyze_with_ab_test"
    /\ last_ai_call.pc = "raised"
    /\ ~ last_ai_call.detached
    /\ last_ai_call.arg \in DOMAIN ab_test_groups
    /\ last_ai_call.candidates = <<"gpt-4-analysis">>
    /\ ab_test_groups[last_ai_call.arg].models = <<"gpt-4-analysis", "gpt-3.5-analysis">>
    /\ ab_test_groups[last_ai_call.arg].results["gpt-4-analysis"]
            = [ requests |-> 2, successes |-> 1 ]
    /\ ab_test_groups[last_ai_call.arg].results["gpt-3.5-analysis"]
            = [ requests |-> 0, successes |-> 0 ]

---------------------------------------------------------------------------
(* Claims about the service's metrics and its admission of tasks *)

\* The tasks stored in a status.
TasksIn(status) == { id \in DOMAIN active_tasks : active_tasks[id].status = status }

\* The key of a status in the metrics.
MetricKey(status) == status \o "_tasks"

\* C22: get_service_metrics reports, under total, the number of stored
\* tasks and, for each of pending, running, completed, failed and
\* cancelled, the number of stored tasks in that status.
C22_MetricsPerStatus ==
    LET metrics == get_service_metrics IN
    /\ "total_tasks" \in DOMAIN metrics
    /\ metrics["total_tasks"] = Cardinality(DOMAIN active_tasks)
    /\ \A status \in {PENDING, RUNNING, COMPLETED, FAILED, CANCELLED} :
            /\ MetricKey(status) \in DOMAIN metrics
            /\ metrics[MetricKey(status)] = Cardinality(TasksIn(status))

\* C23: start_analysis does not read max_concurrent_tasks: whatever the
\* number of PENDING and RUNNING tasks, a submission is taken, its task is
\* stored PENDING and its coroutine is scheduled to run, not queued behind
\* the others, so that more than max_concurrent_tasks tasks can be RUNNING
\* at once.
C23_NoAdmissionGate ==
    [][ /\ FreshId \in SubmittedIds =>
             \A t \in {300} : ENABLED start_analysis(t)
        /\ \A id \in DOMAIN executor :
             executor[id].pc = "scheduled" => ENABLED ExecStart(id)
        /\ \A t \in {300} : start_analysis(t) =>
             /\ last_call'.ret \notin DOMAIN active_tasks
             /\ active_tasks'[last_call'.ret].status = PENDING
             /\ executor'[last_call'.ret].pc = "scheduled"
      ]_vars

\* More tasks are RUNNING than max_concurrent_tasks.
C23_Witness ==
    Cardinality(TasksIn(RUNNING)) > max_concurrent_tasks

---------------------------------------------------------------------------
(* Claims about the confidence score *)

\* The score the claim gives a text that is long enough, in tenths.
StatedScore(response) ==
    LET sum == 5
               + (IF Len(response) > 100 THEN 2 ELSE 0)
               + (IF Len(response) > 500 THEN 1 ELSE 0)
               + (IF (\E i \in DOMAIN response : response[i] = "{")
                     /\ (\E i \in DOMAIN response : response[i] = "}") THEN 1 ELSE 0)
               + (IF \E marker \in list_markers : Contains(response, marker) THEN 1 ELSE 0)
               + (IF \E term \in legal_terms : Contains(lower(response), term) THEN 1 ELSE 0)
    IN IF sum > 10 THEN 10 ELSE sum

\* C24 as stated: the score is 0.0 if the text is empty or shorter than 10
\* characters, and otherwise the clamped sum; it is within [0, 1].
C24_ScoreAsStated ==
    last_ai_call.op = "calculate_confidence" =>
        /\ last_ai_call.ret = IF Len(last_ai_call.response) < 10
                              THEN 0 ELSE StatedScore(last_ai_call.response)
        /\ last_ai_call.ret \in 0 .. 10

\* C24: the score is 0.0 if the text, its leading and trailing whitespace
\* taken off, is empty or shorter than 10 characters, and otherwise
\* min(1.0, 0.5 + 0.2 if the length (whitespace included) is over 100 + 0.1
\* if it is over 500 + 0.1 for a '{' and a '}' + 0.1 for a list marker + 0.1
\* for a legal keyword in any case of letters); it is within [0, 1], and
\* being a function of the text it is the same for the same text.
C24_Score ==
    last_ai_call.op = "calculate_confidence" =>
        /\ last_ai_call.ret = IF Len(strip(last_ai_call.response)) < 10
                              THEN 0 ELSE StatedScore(last_ai_call.response)
        /\ last_ai_call.ret \in 0 .. 10

\* A text of ten characters or more, fewer without the blanks around it,
\* has been scored 0.0.
C24_Witness ==
    /\ last_ai_call.op = "calculate_confidence"
    /\ Len(last_ai_call.response) >= 10
    /\ Len(strip(last_ai_call.response)) \in 1 .. 9
    /\ last_ai_call.ret = 0

\* C25: start_analysis returns an id no earlier submission was given, and
\* when it returns the task is stored under that id with status PENDING and
\* no result, error or end time, get_task_status finds it, and its
\* coroutine is scheduled and has not run: the call has not waited for the
\* analysis.
C25_SubmissionReturnsPending ==
    [][ \A t \in TimeoutValues : start_analysis(t) =>
          LET task_id == last_call'.ret IN
          /\ last_call'.op = "start_analysis"
          /\ task_id \notin DOMAIN active_tasks
          /\ task_id \notin DOMAIN executor
          /\ task_id \in DOMAIN active_tasks'
          /\ active_tasks'[task_id].status = PENDING
          /\ active_tasks'[task_id].result = None
          /\ active_tasks'[task_id].error = None
          /\ active_tasks'[task_id].end_time = None
          /\ \A id \in SubmittedIds : id = task_id =>
                get_task_status(id)' =
                    Some([ status |-> PENDING, end_time |-> None, error |-> None ])
          /\ executor'[task_id].pc = "scheduled"
          /\ \A id \in DOMAIN active_tasks : active_tasks'[id] = active_tasks[id]
      ]_vars

\* A second submission has just returned while the first is RUNNING.
C25_Witness ==
    /\ last_call.op = "start_analysis"
    /\ last_call.ret = 2
    /\ active_tasks[2].status = PENDING
    /\ 1 \in DOMAIN active_tasks
    /\ active_tasks[1].status = RUNNING

\* C26: no step removes a record of the registry of start_analysis, and no
\* step but the sweeper's removes a record of the registry the sweeper
\* works on; so get_task_status finds every id start_analysis has returned.
C26_OnlySweeperRemoves ==
    [][ /\ DOMAIN active_tasks \subseteq DOMAIN active_tasks'
        /\ ~ cleanup_old_tasks => DOMAIN api_active_tasks \subseteq DOMAIN api_active_tasks'
        /\ \A id \in TaskIds : id \in DOMAIN executor' => get_task_status(id)' # None
      ]_vars

\* A task cancelled more than the retention window ago is still found, while
\* the sweeper has removed a record of its own registry.
C26_Witness ==
    /\ \E id \in DOMAIN active_tasks :
           /\ active_tasks[id].status = CANCELLED
           /\ now - active_tasks[id].end_time[1] > TASK_CLEANUP_INTERVAL
           /\ get_task_status(id) # None
    /\ \E id \in DOMAIN api_executor : id \notin DOMAIN api_active_tasks

\* The criteria asked for: the three the code names, and two it does not.
Criteria == {"confidence", "speed", "cost", "priority", "accuracy"}

\* C27: select_best_model(category, criterion) returns none exactly when no
\* active backend of the category is registered; otherwise, whatever the
\* criterion, it returns a registered backend that is active and serves the
\* category, and for a criterion it does not know the one of least priority
\* value.
C27_SelectionAmongActive ==
    \A model_type \in ModelType : \A criteria \in Criteria :
        LET best == select_best_model(model_type, criteria) IN
        /\ best = None <=> ActiveOfType(model_type) = {}
        /\ best # None =>
             /\ best[1] \in DOMAIN models
             /\ models[best[1]].config.is_active
             /\ models[best[1]].config.model_type = model_type
             /\ criteria \notin {"confidence", "speed", "cost"} =>
                    \A n \in ActiveOfType(model_type) :
                        models[best[1]].config.priority <= models[n].config.priority

\* An inactive backend of a category is registered, the cheapest and of the
\* least priority value of all, while the selection by cost names another
\* and a category without backends gets none.
C27_Witness ==
    /\ \E n \in DOMAIN models :
          /\ ~ models[n].config.is_active
          /\ models[n].config.model_type = CONTRACT_ANALYSIS
          /\ \A m \in DOMAIN models : models[n].config.cost_per_token <= models[m].config.cost_per_token
          /\ select_best_model(CONTRACT_ANALYSIS, "cost") \notin {None, Some(n)}
    /\ usage_stats["gpt-4-analysis"].successful_requests > 0
    /\ select_best_model(RISK_ASSESSMENT, "confidence") = None

---------------------------------------------------------------------------
(* Termination *)

\* The task of an id has ended and get_task_status, or the registry of
\* contracts.py, reports its status and, if FAILED or TIMEOUT, its error.
Finished(id) ==
    \/ /\ id \in DOMAIN active_tasks
       /\ get_task_status(id) # None
       /\ get_task_status(id)[1].status \in TerminalStatuses
       /\ get_task_status(id)[1].status \in {FAILED, TIMEOUT} =>
              get_task_status(id)[1].error # None
    \/ /\ id \in DOMAIN api_active_tasks
       /\ api_active_tasks[id].status \in TerminalStatuses
       /\ api_active_tasks[id].status \in {FAILED, TIMEOUT} =>
              api_active_tasks[id].error # None

C29_EndTimeIffTerminal ==
    /\ \A id \in DOMAIN active_tasks :
          active_tasks[id].end_time # None <=> active_tasks[id].status \in TerminalStatuses
    /\ \A id \in DOMAIN api_active_tasks :
          api_active_tasks[id].end_time # None
              <=> api_active_tasks[id].status \in TerminalStatuses

\* C30: every backend name of a stored experiment is the name of a
\* registered backend, and no call of analyze_with_ab_test on a stored
\* experiment ends with the error that a model is not found.
C30_ExperimentArmsRegistered ==
    /\ \A t \in DOMAIN ab_test_groups :
          \A i \in DOMAIN ab_test_groups[t].models :
              ab_test_groups[t].models[i] \in DOMAIN models
    /\ ~ ( /\ last_ai_call.op = "analyze_with_ab_test"
           /\ last_ai_call.pc = "raised"
           /\ last_ai_call.arg \in DOMAIN ab_test_groups
           /\ \E n \in ModelNames :
                 last_ai_call.ret = Some(ValueError("Model " \o n \o " not found")) )

===========================================================================
